---- MODULE Spec2Model ----
(***************************************************************************)
(* Model of the spirant control-surface state layer:                       *)
(*   - ParameterValues (spirant-parameter-values-rs): pages of parameter   *)
(*     slots, the page cursor and the two change flags of each parameter;  *)
(*   - display_update_task (spirant-oled-display-rs): the periodic         *)
(*     snapshot / diff / render / flush / selective-clear cycle;           *)
(*   - encoder_task (spirant-hw-interface-rs): baseline, batched read,     *)
(*     deltas and the guarded update of the store.                         *)
(* Indices are 0-based as in the source; TLA+ tuples are 1-based, so the   *)
(* static tables are read at [i + 1].                                      *)
(***************************************************************************)
EXTENDS Integers, Sequences, FiniteSets, TLC

\* ------------------------------------------------------------------------
\* Program constants
\* ------------------------------------------------------------------------

PARAMS_PER_PAGE == 4

N_PAGES == 4

TOTAL_SLOTS == N_PAGES * PARAMS_PER_PAGE

DEFAULT_MIN_VALUE == 0

DEFAULT_MAX_VALUE == 127

\* Option::None of a name, of a value, of a ParameterChange.
None == "None"

NoValue == [some |-> FALSE]

SomeValue(v) == [some |-> TRUE, v |-> v]

PAGE_NAMES == <<"Filter", "Envelope", "LFO", "Effects">>

PARAM_NAMES ==
    << <<"Cutoff", "Resonance", "Filter Type", "Filter Env">>,
       <<"Attack", "Decay", "Sustain", "Release">>,
       <<"LFO Rate", "LFO Depth", "LFO Shape", None>>,
       <<"Delay Time", "Reverb", None, None>> >>

PageIdx == 0 .. (N_PAGES - 1)

SlotIdx == 0 .. (PARAMS_PER_PAGE - 1)

\* ------------------------------------------------------------------------
\* Bounds of the model: the inputs the environment draws from
\* ------------------------------------------------------------------------

\* Magnitude of one encoder movement between two reads.
DeltaStep == 64

\* Magnitude unit of the values written by the external engine.
ExtStep == 55

EncoderDeltas == {-DeltaStep, DeltaStep}

ExtValues == {-ExtStep, ExtStep, 3 * ExtStep}

\* Page arguments: an all-Active page, a page with a Null slot, one past the end.
PageArgs == {0, 2, N_PAGES}

\* Slot arguments: slot 3 is Active on page 0 and Null on page 2; one past the end.
SlotArgs == {3, PARAMS_PER_PAGE}

\* Global indices: (0,3) Active, (2,0) Active, (2,3) Null, one past the end.
GlobalArgs == {3, 8, 11, TOTAL_SLOTS}

\* ------------------------------------------------------------------------
\* i32 arithmetic
\* ------------------------------------------------------------------------

I32_MAX == 2147483647

I32_MIN == -I32_MAX - 1

\* a + b on i32 with two's-complement wrap-around, computed without leaving
\* the 32-bit range.
WrappingAdd(a, b) ==
    IF b > 0 /\ a > I32_MAX - b
        THEN (a - I32_MAX - 1) + (b - I32_MAX - 1)
    ELSE IF b < 0 /\ a < I32_MIN - b
        THEN (a + I32_MAX + 1) + (b + I32_MAX + 1)
    ELSE a + b

\* a - b on i32 with wrap-around.
WrappingSub(a, b) ==
    IF b < 0 /\ a > I32_MAX + b
        THEN (a - I32_MAX - 1) - (b + I32_MAX + 1)
    ELSE IF b > 0 /\ a < I32_MIN + b
        THEN (a + I32_MAX + 1) - (b - I32_MAX - 1)
    ELSE a - b

\* i32::clamp
Clamp(v, lo, hi) == IF v < lo THEN lo ELSE IF v > hi THEN hi ELSE v

\* ------------------------------------------------------------------------
\* Parameter, ParameterSlot, Page
\* ------------------------------------------------------------------------

\* A default whose parameters start marked for the external engine.
ParameterDefaultExternalDirty ==
    [value |-> 0, min_value |-> DEFAULT_MIN_VALUE, max_value |-> DEFAULT_MAX_VALUE,
     changed_oled |-> FALSE, changed_i2c |-> TRUE]

\* Parameter::default
ParameterDefault ==
    [value |-> 0, min_value |-> DEFAULT_MIN_VALUE, max_value |-> DEFAULT_MAX_VALUE,
     changed_oled |-> FALSE, changed_i2c |-> FALSE]

Active(param) == [kind |-> "Active", param |-> param]

Null == [kind |-> "Null"]

is_active(slot) == slot.kind = "Active"

set_value_unclamped(param, v) ==
    [param EXCEPT !.value = v, !.changed_oled = TRUE, !.changed_i2c = TRUE]

\* Parameter::set_value
set_value(param, v) ==
    [param EXCEPT !.value = Clamp(v, param.min_value, param.max_value),
                  !.changed_oled = TRUE,
                  !.changed_i2c = TRUE]

set_value_from_i2c_both_flags(param, v) ==
    [param EXCEPT !.value = Clamp(v, param.min_value, param.max_value),
                  !.changed_oled = TRUE,
                  !.changed_i2c = TRUE]

\* Parameter::set_value_from_i2c
set_value_from_i2c(param, v) ==
    [param EXCEPT !.value = Clamp(v, param.min_value, param.max_value),
                  !.changed_oled = TRUE]

\* ------------------------------------------------------------------------
\* ParameterValues
\* ------------------------------------------------------------------------

\* A constructor that makes every slot Active.
new_all_active ==
    [pages |->
        [page_idx \in PageIdx |->
            [params |-> [slot_idx \in SlotIdx |-> Active(ParameterDefault)]]],
     current_page |-> 0]

\* ParameterValues::new
new ==
    [pages |->
        [page_idx \in PageIdx |->
            [params |->
                [slot_idx \in SlotIdx |->
                    IF PARAM_NAMES[page_idx + 1][slot_idx + 1] # None
                        THEN Active(ParameterDefault)
                        ELSE Null]]],
     current_page |-> 0]

SlotAt(pv, page, slot) == pv.pages[page].params[slot]

\* A set_page that also marks the new page for redraw.
set_page_marks_oled(pv, page) ==
    IF page >= N_PAGES
        THEN [pv |-> pv, res |-> "InvalidPageIndex"]
        ELSE [pv |->
                [pv EXCEPT
                    !.current_page = page,
                    !.pages[page].params =
                        [i \in SlotIdx |->
                            IF is_active(@[i])
                                THEN Active([@[i].param EXCEPT !.changed_oled = TRUE])
                                ELSE @[i]]],
              res |-> "Ok"]

\* A set_page without the range check.
set_page_unchecked(pv, page) ==
    [pv |-> [pv EXCEPT !.current_page = page], res |-> "Ok"]

\* ParameterValues::set_page
set_page(pv, page) ==
    IF page >= N_PAGES
        THEN [pv |-> pv, res |-> "InvalidPageIndex"]
        ELSE [pv |-> [pv EXCEPT !.current_page = page], res |-> "Ok"]

\* A set_active_page that marks both flags of the new page.
set_active_page_marks_both(pv, page) ==
    IF page >= N_PAGES
        THEN [pv |-> pv, res |-> "InvalidPageIndex"]
        ELSE [pv |->
                [pv EXCEPT
                    !.current_page = page,
                    !.pages[page].params =
                        [i \in SlotIdx |->
                            IF is_active(@[i])
                                THEN Active([@[i].param EXCEPT !.changed_oled = TRUE,
                                                                !.changed_i2c = TRUE])
                                ELSE @[i]]],
              res |-> "Ok"]

\* A set_active_page that reports a page past the end and moves to the last page.
set_active_page_saturating(pv, page) ==
    LET q == IF page >= N_PAGES THEN N_PAGES - 1 ELSE page IN
    [pv |->
        [pv EXCEPT
            !.current_page = q,
            !.pages[q].params =
                [i \in SlotIdx |->
                    IF is_active(@[i])
                        THEN Active([@[i].param EXCEPT !.changed_oled = TRUE])
                        ELSE @[i]]],
     res |-> IF page >= N_PAGES THEN "InvalidPageIndex" ELSE "Ok"]

\* ParameterValues::set_active_page
set_active_page(pv, page) ==
    IF page >= N_PAGES
        THEN [pv |-> pv, res |-> "InvalidPageIndex"]
        ELSE [pv |->
                [pv EXCEPT
                    !.current_page = page,
                    !.pages[page].params =
                        [i \in SlotIdx |->
                            IF is_active(@[i])
                                THEN Active([@[i].param EXCEPT !.changed_oled = TRUE])
                                ELSE @[i]]],
              res |-> "Ok"]

\* An update_from_encoder that wraps an index past the last slot.
update_from_encoder_wraps(pv, encoder_idx, delta) ==
    LET e == encoder_idx % PARAMS_PER_PAGE
        slot == SlotAt(pv, pv.current_page, e)
    IN  IF is_active(slot)
            THEN [pv EXCEPT !.pages[pv.current_page].params[e] =
                     Active(set_value(slot.param, WrappingAdd(slot.param.value, delta)))]
            ELSE pv

\* An update_from_encoder that always writes the first page.
update_from_encoder_first_page(pv, encoder_idx, delta) ==
    IF encoder_idx >= PARAMS_PER_PAGE
        THEN pv
        ELSE LET slot == SlotAt(pv, 0, encoder_idx) IN
             IF is_active(slot)
                 THEN [pv EXCEPT !.pages[0].params[encoder_idx] =
                          Active(set_value(slot.param,
                                           WrappingAdd(slot.param.value, delta)))]
                 ELSE pv

\* ParameterValues::update_from_encoder
update_from_encoder(pv, encoder_idx, delta) ==
    IF encoder_idx >= PARAMS_PER_PAGE
        THEN pv
        ELSE LET slot == SlotAt(pv, pv.current_page, encoder_idx) IN
             IF is_active(slot)
                 THEN [pv EXCEPT !.pages[pv.current_page].params[encoder_idx] =
                          Active(set_value(slot.param,
                                           WrappingAdd(slot.param.value, delta)))]
                 ELSE pv

\* A decoding with the quotient and the remainder exchanged.
global_to_page_encoder_swapped(global_idx) ==
    IF global_idx >= TOTAL_SLOTS
        THEN [res |-> "InvalidGlobalIndex", page |-> 0, encoder |-> 0]
        ELSE [res |-> "Ok",
              page |-> global_idx % PARAMS_PER_PAGE,
              encoder |-> global_idx \div PARAMS_PER_PAGE]

\* ParameterValues::global_to_page_encoder
global_to_page_encoder(global_idx) ==
    IF global_idx >= TOTAL_SLOTS
        THEN [res |-> "InvalidGlobalIndex", page |-> 0, encoder |-> 0]
        ELSE [res |-> "Ok",
              page |-> global_idx \div PARAMS_PER_PAGE,
              encoder |-> global_idx % PARAMS_PER_PAGE]

\* An update_from_i2c that writes the slot of the current page.
update_from_i2c_current_page(pv, global_idx, value) ==
    LET pe == global_to_page_encoder(global_idx) IN
    IF pe.res # "Ok"
        THEN [pv |-> pv, res |-> pe.res]
        ELSE LET slot == SlotAt(pv, pv.current_page, pe.encoder) IN
             IF is_active(slot)
                 THEN [pv |-> [pv EXCEPT !.pages[pv.current_page].params[pe.encoder] =
                                  Active(set_value_from_i2c(slot.param, value))],
                       res |-> "Ok"]
                 ELSE [pv |-> pv, res |-> "NullSlot"]

\* ParameterValues::update_from_i2c
update_from_i2c(pv, global_idx, value) ==
    LET pe == global_to_page_encoder(global_idx) IN
    IF pe.res # "Ok"
        THEN [pv |-> pv, res |-> pe.res]
        ELSE LET slot == SlotAt(pv, pe.page, pe.encoder) IN
             IF is_active(slot)
                 THEN [pv |-> [pv EXCEPT !.pages[pe.page].params[pe.encoder] =
                                  Active(set_value_from_i2c(slot.param, value))],
                       res |-> "Ok"]
                 ELSE [pv |-> pv, res |-> "NullSlot"]

\* One ParameterChange.
ParameterChange(page_idx, enc_idx, param) ==
    [name |-> PARAM_NAMES[page_idx + 1][enc_idx + 1],
     value |-> param.value,
     page |-> page_idx,
     encoder |-> enc_idx]

\* An Option<ParameterChange> that is None.
NoChange == [some |-> FALSE]

\* The result array: the collected entries, then None up to TOTAL_SLOTS.
ResultArray(entries) ==
    [i \in 1 .. TOTAL_SLOTS |-> IF i <= Len(entries) THEN entries[i] ELSE NoChange]

\* The loop of take_oled_changes over pages and slots, in iteration order g.
RECURSIVE oled_scan(_, _, _)
oled_scan(pv, g, entries) ==
    IF g >= TOTAL_SLOTS
        THEN [pv |-> pv, result |-> ResultArray(entries), count |-> Len(entries)]
        ELSE LET page_idx == g \div PARAMS_PER_PAGE
                 enc_idx == g % PARAMS_PER_PAGE
                 slot == SlotAt(pv, page_idx, enc_idx)
             IN  IF is_active(slot) /\ slot.param.changed_oled
                     THEN oled_scan(
                              [pv EXCEPT !.pages[page_idx].params[enc_idx] =
                                  Active([slot.param EXCEPT !.changed_oled = FALSE])],
                              g + 1,
                              Append(entries, ParameterChange(page_idx, enc_idx, slot.param)))
                     ELSE oled_scan(pv, g + 1, entries)

\* The loop of take_i2c_changes over pages and slots, in iteration order g.
RECURSIVE i2c_scan(_, _, _)
i2c_scan(pv, g, entries) ==
    IF g >= TOTAL_SLOTS
        THEN [pv |-> pv, result |-> ResultArray(entries), count |-> Len(entries)]
        ELSE LET page_idx == g \div PARAMS_PER_PAGE
                 enc_idx == g % PARAMS_PER_PAGE
                 slot == SlotAt(pv, page_idx, enc_idx)
             IN  IF is_active(slot) /\ slot.param.changed_i2c
                     THEN i2c_scan(
                              [pv EXCEPT !.pages[page_idx].params[enc_idx] =
                                  Active([slot.param EXCEPT !.changed_i2c = FALSE])],
                              g + 1,
                              Append(entries, ParameterChange(page_idx, enc_idx, slot.param)))
                     ELSE i2c_scan(pv, g + 1, entries)

\* A drain that clears both flags of every parameter it returns.
take_oled_changes_clears_both(pv) ==
    LET r == oled_scan(pv, 0, <<>>) IN
    [r EXCEPT !.pv.pages =
        [p \in PageIdx |->
            [params |->
                [s \in SlotIdx |->
                    IF is_active(SlotAt(pv, p, s)) /\ SlotAt(pv, p, s).param.changed_oled
                        THEN Active([SlotAt(pv, p, s).param EXCEPT
                                        !.changed_oled = FALSE, !.changed_i2c = FALSE])
                        ELSE SlotAt(pv, p, s)]]]]

\* A drain that fills the result from its far end.
take_oled_changes_from_end(pv) ==
    LET r == oled_scan(pv, 0, <<>>) IN
    [r EXCEPT !.result = [i \in 1 .. TOTAL_SLOTS |-> r.result[TOTAL_SLOTS + 1 - i]]]

\* ParameterValues::take_oled_changes
take_oled_changes(pv) == oled_scan(pv, 0, <<>>)

\* A drain that returns the dirty parameters and leaves their flags set.
take_i2c_changes_keeps_flags(pv) ==
    LET r == i2c_scan(pv, 0, <<>>) IN [r EXCEPT !.pv = pv]

\* ParameterValues::take_i2c_changes
take_i2c_changes(pv) == i2c_scan(pv, 0, <<>>)

\* ------------------------------------------------------------------------
\* DisplayConfig
\* ------------------------------------------------------------------------

\* impl Default for DisplayConfig
DisplayConfigDefault ==
    [update_frequency_hz |-> 60,
     display_width |-> 128,
     display_height |-> 64,
     column_width |-> 32,
     header_height |-> 12,
     param_name_y |-> 24,
     param_value_y |-> 40]

\* DisplayConfig::update_period_ms
update_period_ms(config) == 1000 \div config.update_frequency_hz

\* ------------------------------------------------------------------------
\* DisplayState and the steps of display_update_task
\* ------------------------------------------------------------------------

\* Usable bytes of a name buffer ([u8; 16], the 16th byte always 0).
NAME_MAX == 15

\* Copy of a name into a zero-padded buffer, cut to NAME_MAX bytes.
Truncate(name) == IF Len(name) > NAME_MAX THEN SubSeq(name, 1, NAME_MAX) ELSE name

\* DisplayState::default
DisplayStateDefault ==
    [page_name |-> "",
     param_names |-> [i \in SlotIdx |-> ""],
     param_values |-> [i \in SlotIdx |-> NoValue]]

\* DisplayState::from_params
from_params(page_name, param_names, param_values_snap) ==
    [page_name |-> Truncate(page_name),
     param_names |-> [i \in SlotIdx |->
                         IF param_names[i] # None THEN Truncate(param_names[i]) ELSE ""],
     param_values |-> param_values_snap]

\* Step 1 of a cycle: what the task copies out of the store under the mutex.
Snapshot(pv) ==
    LET page_idx == pv.current_page
        page == pv.pages[page_idx]
    IN  [page_idx |-> page_idx,
         page_name |-> PAGE_NAMES[page_idx + 1],
         names |-> [i \in SlotIdx |->
                       IF is_active(page.params[i]) THEN PARAM_NAMES[page_idx + 1][i + 1]
                                                    ELSE None],
         values |-> [i \in SlotIdx |->
                        IF is_active(page.params[i]) THEN SomeValue(page.params[i].param.value)
                                                     ELSE NoValue],
         flags |-> [i \in SlotIdx |->
                       IF is_active(page.params[i]) THEN page.params[i].param.changed_oled
                                                    ELSE FALSE]]

\* The locals of a cycle before Step 1 has run.
NoSnap ==
    [page_idx |-> 0,
     page_name |-> "",
     names |-> [i \in SlotIdx |-> None],
     values |-> [i \in SlotIdx |-> NoValue],
     flags |-> [i \in SlotIdx |-> FALSE]]

\* A reconcile that clears changed_oled on every Active slot of the page.
ReconcileClearsAll(pv, changed_flags) ==
    LET page_idx == pv.current_page IN
    [pv EXCEPT !.pages[page_idx].params =
        [i \in SlotIdx |->
            IF is_active(@[i])
                THEN Active([@[i].param EXCEPT !.changed_oled = FALSE])
                ELSE @[i]]]

\* Step 6 of a cycle: clear changed_oled where Step 1 saw it set.
Reconcile(pv, changed_flags) ==
    LET page_idx == pv.current_page IN
    [pv EXCEPT !.pages[page_idx].params =
        [i \in SlotIdx |->
            IF changed_flags[i] /\ is_active(@[i])
                THEN Active([@[i].param EXCEPT !.changed_oled = FALSE])
                ELSE @[i]]]

\* Contents of the frame buffer and of the screen.
Blank == [kind |-> "blank", state |-> DisplayStateDefault]

Partial == [kind |-> "partial", state |-> DisplayStateDefault]

Frame(state) == [kind |-> "frame", state |-> state]

\* The presentation of the store's current page: its page name and, per slot,
\* the layout table's name and the parameter's value (nothing for a Null slot).
Present(pv) ==
    [page_name |-> PAGE_NAMES[pv.current_page + 1],
     param_names |-> [i \in SlotIdx |->
                         IF PARAM_NAMES[pv.current_page + 1][i + 1] # None
                             THEN PARAM_NAMES[pv.current_page + 1][i + 1]
                             ELSE ""],
     param_values |-> [i \in SlotIdx |->
                          IF is_active(SlotAt(pv, pv.current_page, i))
                              THEN SomeValue(SlotAt(pv, pv.current_page, i).param.value)
                              ELSE NoValue]]

\* ------------------------------------------------------------------------
\* State
\* ------------------------------------------------------------------------

VARIABLES
    param_values,   \* PARAM_VALUES: the ParameterValues behind the mutex
    mutex,          \* holder of the PARAM_VALUES mutex: "free", "oled", "encoder"
    last_call,      \* the most recent call of the store's API and what it returned
    prev_call,      \* the call before the most recent one: its name, whether it returned entries
    value_origin,   \* per global index: which write produced the current value
    oled_pc,        \* display_update_task: the point the task is suspended at
    initialized,    \* OledDriver.initialized
    snap,           \* Step 1's (page_name, names, values, flags) of this cycle
    new_state,      \* Step 2's new_state of this cycle
    last_state,     \* last_state of display_update_task
    frame_buffer,   \* the driver's in-memory frame buffer
    screen,         \* what the display hardware shows
    flushed,        \* the presentation value of the frame most recently flushed with success
    since_snap,     \* producers' changes of the store since this cycle's snapshot
    quiet,          \* display cycles ended since the producers last changed the store
    retry_pending,  \* a cycle failed and the store is as that cycle snapshotted it
    last_cycle,     \* how the most recent cycle ended
    enc_pc,         \* encoder_task: the point the task is suspended at
    previous_positions, \* encoder_task's baseline
    positions,      \* the positions read so far by read_all_positions
    read_idx,       \* the encoder read_all_positions reads next
    update_idx,     \* the slot the guarded update loop of encoder_task is at
    deltas,         \* encoder_task's deltas of this wake
    hw_positions,   \* the encoder board's absolute position counters
    int_low,        \* the board's INT line is driven low (an interrupt flag is set)
    i2c_bus,        \* holder of the I2C_BUS mutex: "free", "oled", "encoder"
    last_good,      \* the positions of the most recent read_all_positions that returned Ok
    accounted       \* per encoder: the initial baseline plus every delta passed to update_from_encoder

storeVars == <<param_values, mutex>>

callVars == <<last_call, prev_call, value_origin>>

oledVars == <<oled_pc, initialized, snap, new_state, last_state, frame_buffer, screen,
             flushed>>

oledHistory == <<since_snap, quiet, retry_pending, last_cycle>>

encVars == <<enc_pc, previous_positions, positions, read_idx, deltas, update_idx, last_good,
            accounted>>

hwVars == <<hw_positions, int_low, i2c_bus>>

vars == <<param_values, mutex, last_call, prev_call, value_origin, oled_pc, initialized, snap,
          new_state, last_state, frame_buffer, screen, flushed, since_snap, quiet,
          retry_pending, last_cycle, enc_pc, previous_positions, positions, read_idx,
          deltas, update_idx, hw_positions, int_low, i2c_bus, last_good, accounted>>

NoCall == [op |-> "none", args |-> <<>>, res |-> "Ok", out |-> <<>>]

Call(op, args, res, out) == [op |-> op, args |-> args, res |-> res, out |-> out]

\* What is kept of a call once the next call is made: which drain it was, if
\* any, and whether it returned entries.
Previous(call) ==
    IF call.op \in {"take_oled_changes", "take_i2c_changes"}
        THEN [op |-> call.op, some |-> call.out # <<>>]
        ELSE [op |-> "other", some |-> FALSE]

GlobalOf(page, slot) == page * PARAMS_PER_PAGE + slot

\* [0i32; 4]
Zeros == [i \in SlotIdx |-> 0]

NoCycle == [end |-> "none", kept |-> FALSE]

\* No cycle is in progress and the store is as built: the cycle to come counts
\* as the one following the change.
NoQuiet == [cycles |-> 1, failed |-> FALSE, late |-> FALSE]

\* A render or flush failed since the store last changed.
QuietVoid == [cycles |-> 0, failed |-> TRUE, late |-> FALSE]

Init ==
    /\ param_values = new
    /\ mutex = "free"
    /\ last_call = NoCall
    /\ prev_call = Previous(NoCall)
    /\ value_origin = [g \in 0 .. (TOTAL_SLOTS - 1) |-> "new"]
    /\ oled_pc = "init"
    /\ initialized = FALSE
    /\ snap = NoSnap
    /\ new_state = DisplayStateDefault
    /\ last_state = DisplayStateDefault
    /\ frame_buffer = Blank
    /\ screen = Blank
    /\ flushed = DisplayStateDefault
    /\ since_snap = {}
    /\ quiet = NoQuiet
    /\ retry_pending = FALSE
    /\ last_cycle = NoCycle
    /\ enc_pc = "init_read"
    /\ previous_positions = Zeros
    /\ positions = Zeros
    /\ read_idx = 0
    /\ update_idx = 0
    /\ deltas = Zeros
    /\ hw_positions = Zeros
    /\ int_low = FALSE
    /\ i2c_bus = "free"
    /\ last_good = Zeros
    /\ accounted = Zeros

\* ------------------------------------------------------------------------
\* Calls of the store's API (each is one guarded section of its caller)
\* ------------------------------------------------------------------------

CallSetPage(page) ==
    /\ mutex = "free"
    /\ prev_call' = Previous(last_call)
    /\ LET r == set_page(param_values, page) IN
       /\ param_values' = r.pv
       /\ last_call' = Call("set_page", <<page>>, r.res, <<>>)
    /\ UNCHANGED <<mutex, value_origin, oledVars, oledHistory, encVars, hwVars>>

CallSetActivePage(page) ==
    /\ mutex = "free"
    /\ prev_call' = Previous(last_call)
    /\ LET r == set_active_page(param_values, page) IN
       /\ param_values' = r.pv
       /\ last_call' = Call("set_active_page", <<page>>, r.res, <<>>)
    /\ UNCHANGED <<mutex, value_origin, oledVars, oledHistory, encVars, hwVars>>

\* The origin of the value at (current page, encoder_idx) after an encoder write.
OriginAfterEncoder(pv, encoder_idx) ==
    IF encoder_idx < PARAMS_PER_PAGE /\ is_active(SlotAt(pv, pv.current_page, encoder_idx))
        THEN [value_origin EXCEPT ![GlobalOf(pv.current_page, encoder_idx)] = "encoder"]
        ELSE value_origin

CallUpdateFromEncoder(encoder_idx, delta) ==
    /\ mutex = "free"
    /\ prev_call' = Previous(last_call)
    /\ param_values' = update_from_encoder(param_values, encoder_idx, delta)
    /\ last_call' = Call("update_from_encoder", <<encoder_idx, delta>>, "Ok", <<>>)
    /\ value_origin' = OriginAfterEncoder(param_values, encoder_idx)
    /\ UNCHANGED <<mutex, oledVars, oledHistory, encVars, hwVars>>

CallUpdateFromI2c(global_idx, value) ==
    /\ mutex = "free"
    /\ prev_call' = Previous(last_call)
    /\ LET r == update_from_i2c(param_values, global_idx, value) IN
       /\ param_values' = r.pv
       /\ last_call' = Call("update_from_i2c", <<global_idx, value>>, r.res, <<>>)
       /\ value_origin' = IF r.res = "Ok"
                              THEN [value_origin EXCEPT ![global_idx] = "i2c"]
                              ELSE value_origin
    /\ UNCHANGED <<mutex, oledVars, oledHistory, encVars, hwVars>>

CallTakeOledChanges ==
    /\ mutex = "free"
    /\ prev_call' = Previous(last_call)
    /\ LET r == take_oled_changes(param_values) IN
       /\ param_values' = r.pv
       /\ last_call' = Call("take_oled_changes", <<>>, "Ok",
                            SubSeq(r.result, 1, r.count))
    /\ UNCHANGED <<mutex, value_origin, oledVars, oledHistory, encVars, hwVars>>

CallTakeI2cChanges ==
    /\ mutex = "free"
    /\ prev_call' = Previous(last_call)
    /\ LET r == take_i2c_changes(param_values) IN
       /\ param_values' = r.pv
       /\ last_call' = Call("take_i2c_changes", <<>>, "Ok",
                            SubSeq(r.result, 1, r.count))
    /\ UNCHANGED <<mutex, value_origin, oledVars, oledHistory, encVars, hwVars>>

\* ------------------------------------------------------------------------
\* StoreSpec: the store driven through its API alone
\* ------------------------------------------------------------------------

StoreNext ==
    \/ \E page \in PageArgs : CallSetPage(page)
    \/ \E page \in PageArgs : CallSetActivePage(page)
    \/ \E encoder_idx \in SlotArgs, delta \in EncoderDeltas :
           CallUpdateFromEncoder(encoder_idx, delta)
    \/ \E global_idx \in GlobalArgs, value \in ExtValues :
           CallUpdateFromI2c(global_idx, value)
    \/ CallTakeOledChanges
    \/ CallTakeI2cChanges

StoreSpec == Init /\ [][StoreNext]_vars

\* ------------------------------------------------------------------------
\* display_update_task
\* ------------------------------------------------------------------------

InCycle == oled_pc \in {"step2", "flush", "lock6", "step6"}

\* The history after a cycle has ended without failure.
CycleEnded ==
    IF quiet.failed THEN quiet
    ELSE [quiet EXCEPT !.cycles = IF @ < 2 THEN @ + 1 ELSE @]

\* The history after a cycle has ended by a render or flush failure.
CycleFailed == QuietVoid

\* An initialisation whose failure lets the task enter its loop.
OledInitFailureGoesOn ==
    /\ oled_pc = "init"
    /\ \E ok \in BOOLEAN :
          /\ initialized' = ok
          /\ oled_pc' = "timer"
    /\ UNCHANGED <<storeVars, callVars, snap, new_state, last_state, flushed, frame_buffer,
                   screen, oledHistory>>

\* driver.init().await, then return on failure.
OledInit ==
    /\ oled_pc = "init"
    /\ \E ok \in BOOLEAN :
          IF ok THEN /\ initialized' = TRUE
                     /\ oled_pc' = "timer"
                ELSE /\ initialized' = FALSE
                     /\ oled_pc' = "exited"
    /\ UNCHANGED <<storeVars, callVars, snap, new_state, last_state, flushed, frame_buffer,
                   screen, oledHistory>>

\* Timer::after(period).await
OledTimer ==
    /\ oled_pc = "timer"
    /\ oled_pc' = "lock1"
    /\ UNCHANGED <<storeVars, callVars, initialized, snap, new_state, last_state, flushed,
                   frame_buffer, screen, oledHistory>>

\* A Step 1 that enters its section without waiting for the mutex.
OledLockStep1IgnoresMutex ==
    /\ oled_pc = "lock1"
    /\ mutex' = "oled"
    /\ oled_pc' = "step1"
    /\ UNCHANGED <<param_values, callVars, initialized, snap, new_state, last_state, flushed,
                   frame_buffer, screen, oledHistory>>

\* Step 1: param_values.lock().await
OledLockStep1 ==
    /\ oled_pc = "lock1"
    /\ mutex = "free"
    /\ mutex' = "oled"
    /\ oled_pc' = "step1"
    /\ UNCHANGED <<param_values, callVars, initialized, snap, new_state, last_state, flushed,
                   frame_buffer, screen, oledHistory>>

\* Step 1 without the release of the mutex.
OledSnapshotKeepsLock ==
    /\ oled_pc = "step1"
    /\ snap' = Snapshot(param_values)
    /\ oled_pc' = "step2"
    /\ since_snap' = {}
    /\ UNCHANGED <<param_values, mutex, callVars, initialized, new_state, last_state, flushed,
                   frame_buffer, screen, quiet, retry_pending, last_cycle>>

\* Step 1: copy the current page and its changed_oled flags, release the mutex.
OledSnapshot ==
    /\ oled_pc = "step1"
    /\ snap' = Snapshot(param_values)
    /\ mutex' = "free"
    /\ oled_pc' = "step2"
    /\ since_snap' = {}
    /\ UNCHANGED <<param_values, callVars, initialized, new_state, last_state, flushed,
                   frame_buffer, screen, quiet, retry_pending, last_cycle>>

\* The end of a cycle: back to the timer, the cycle's locals dropped.
BackToTimer ==
    /\ oled_pc' = "timer"
    /\ snap' = NoSnap
    /\ new_state' = DisplayStateDefault
    /\ since_snap' = {}

\* Steps 2-3 that never skip: the cycle goes on as if the state had changed.
OledSkipNever ==
    /\ oled_pc = "step2"
    /\ from_params(snap.page_name, snap.names, snap.values) = last_state
    /\ new_state' = from_params(snap.page_name, snap.names, snap.values)
    /\ frame_buffer' = Frame(new_state')
    /\ oled_pc' = "flush"
    /\ UNCHANGED <<storeVars, callVars, initialized, snap, last_state, flushed, screen,
                   oledHistory>>

\* Steps 2-3: new_state == last_state, continue.
OledSkip ==
    /\ oled_pc = "step2"
    /\ from_params(snap.page_name, snap.names, snap.values) = last_state
    /\ BackToTimer
    /\ quiet' = CycleEnded
    /\ retry_pending' = FALSE
    /\ last_cycle' = [end |-> "skip", kept |-> FALSE]
    /\ UNCHANGED <<storeVars, callVars, initialized, last_state, flushed, frame_buffer, screen>>

\* Steps 2-4: new_state != last_state; clear the buffer and render into it.
OledRender ==
    /\ oled_pc = "step2"
    /\ from_params(snap.page_name, snap.names, snap.values) # last_state
    /\ \E render_ok \in BOOLEAN :
          IF initialized /\ render_ok
              THEN /\ new_state' = from_params(snap.page_name, snap.names, snap.values)
                   /\ frame_buffer' = Frame(new_state')
                   /\ oled_pc' = "flush"
                   /\ retry_pending' = FALSE
                   /\ UNCHANGED <<snap, since_snap, quiet, last_cycle>>
              ELSE /\ frame_buffer' = IF initialized THEN Partial ELSE Blank
                   /\ BackToTimer
                   /\ quiet' = CycleFailed
                   /\ retry_pending' = (since_snap = {})
                   /\ last_cycle' = [end |-> "fail", kept |-> FALSE]
    /\ UNCHANGED <<storeVars, callVars, initialized, last_state, flushed, screen>>

\* A flush whose failure still reaches Step 6.
OledFlushFailureGoesOn ==
    /\ oled_pc = "flush"
    /\ \E flush_ok \in BOOLEAN :
          /\ screen' \in (IF initialized /\ flush_ok THEN {frame_buffer}
                          ELSE IF initialized THEN {screen, Partial} ELSE {screen})
          /\ flushed' = IF initialized /\ flush_ok THEN frame_buffer.state ELSE flushed
          /\ oled_pc' = "lock6"
          /\ UNCHANGED <<snap, new_state, since_snap, quiet, retry_pending, last_cycle>>
    /\ UNCHANGED <<storeVars, callVars, initialized, last_state, frame_buffer>>

\* A flush whose failure still records the frame as last rendered.
OledFlushRecordsOnFailure ==
    /\ oled_pc = "flush"
    /\ \E flush_ok \in BOOLEAN :
          IF initialized /\ flush_ok
              THEN /\ screen' = frame_buffer
                   /\ flushed' = frame_buffer.state
                   /\ oled_pc' = "lock6"
                   /\ UNCHANGED <<snap, new_state, last_state, since_snap, quiet,
                                  retry_pending, last_cycle>>
              ELSE /\ screen' \in (IF initialized THEN {screen, Partial} ELSE {screen})
                   /\ flushed' = flushed
                   /\ last_state' = new_state
                   /\ BackToTimer
                   /\ quiet' = CycleFailed
                   /\ retry_pending' = (since_snap = {})
                   /\ last_cycle' = [end |-> "fail", kept |-> FALSE]
    /\ UNCHANGED <<storeVars, callVars, initialized, frame_buffer>>

\* Step 5: driver.flush().await
OledFlush ==
    /\ oled_pc = "flush"
    /\ \E flush_ok \in BOOLEAN :
          IF initialized /\ flush_ok
              THEN /\ screen' = frame_buffer
                   /\ flushed' = frame_buffer.state
                   /\ oled_pc' = "lock6"
                   /\ UNCHANGED <<snap, new_state, since_snap, quiet, retry_pending,
                                  last_cycle>>
              ELSE /\ screen' \in (IF initialized THEN {screen, Partial} ELSE {screen})
                   /\ flushed' = flushed
                   /\ BackToTimer
                   /\ quiet' = CycleFailed
                   /\ retry_pending' = (since_snap = {})
                   /\ last_cycle' = [end |-> "fail", kept |-> FALSE]
    /\ UNCHANGED <<storeVars, callVars, initialized, last_state, frame_buffer>>

\* Step 6: param_values.lock().await
OledLockStep6 ==
    /\ oled_pc = "lock6"
    /\ mutex = "free"
    /\ mutex' = "oled"
    /\ oled_pc' = "step6"
    /\ UNCHANGED <<param_values, callVars, initialized, snap, new_state, last_state, flushed,
                   frame_buffer, screen, oledHistory>>

\* Some slot of the snapshotted page was seen clean in Step 1, was written since,
\* and leaves Step 6 with changed_oled set.
KeptUnseen ==
    \E i \in SlotIdx :
        /\ ~snap.flags[i]
        /\ \E kind \in {"encoder", "i2c"} : <<kind, snap.page_idx, i>> \in since_snap
        /\ is_active(SlotAt(param_values', snap.page_idx, i))
        /\ SlotAt(param_values', snap.page_idx, i).param.changed_oled

\* A Step 6 that leaves last_state as it was.
OledReconcileKeepsLastState ==
    /\ oled_pc = "step6"
    /\ param_values' = Reconcile(param_values, snap.flags)
    /\ mutex' = "free"
    /\ BackToTimer
    /\ quiet' = CycleEnded
    /\ last_cycle' = [end |-> "done", kept |-> KeptUnseen]
    /\ UNCHANGED <<callVars, initialized, last_state, flushed, frame_buffer, screen, retry_pending>>

\* Step 6: clear the flags seen set in Step 1, release the mutex; last_state = new_state.
OledReconcile ==
    /\ oled_pc = "step6"
    /\ param_values' = Reconcile(param_values, snap.flags)
    /\ mutex' = "free"
    /\ last_state' = new_state
    /\ BackToTimer
    /\ quiet' = CycleEnded
    /\ last_cycle' = [end |-> "done", kept |-> KeptUnseen]
    /\ UNCHANGED <<callVars, initialized, frame_buffer, screen, flushed, retry_pending>>

OledStep ==
    \/ OledInit
    \/ OledTimer
    \/ OledLockStep1
    \/ OledSnapshot
    \/ OledSkip
    \/ OledRender
    \/ OledFlush
    \/ OledLockStep6
    \/ OledReconcile

\* A step of the display task: it touches neither the encoder task nor the board;
\* the I2cDevice wrapper has released the bus when init or flush returns.
OledTask ==
    /\ OledStep
    /\ i2c_bus' = IF oled_pc \in {"init", "flush"} THEN "free" ELSE i2c_bus
    /\ UNCHANGED <<encVars, hw_positions, int_low>>

\* ------------------------------------------------------------------------
\* Producers: the guarded sections that write the store while the display runs
\* ------------------------------------------------------------------------

\* The history after a producer's guarded section took the store from pv to pv2.
ProducerHistory(pv, pv2, events) ==
    /\ since_snap' = IF InCycle /\ pv2 # pv THEN since_snap \cup events ELSE since_snap
    /\ quiet' = IF pv2 = pv THEN quiet
                 ELSE IF InCycle THEN [cycles |-> 0, failed |-> FALSE, late |-> TRUE]
                 ELSE [cycles |-> 1, failed |-> FALSE, late |-> FALSE]
    /\ retry_pending' = IF pv2 # pv THEN FALSE ELSE retry_pending

\* The guarded update loop of encoder_task for one batch of deltas.
RECURSIVE apply_deltas(_, _, _)
apply_deltas(pv, ds, encoder_idx) ==
    IF encoder_idx >= PARAMS_PER_PAGE
        THEN pv
        ELSE apply_deltas(
                 IF ds[encoder_idx] # 0
                     THEN update_from_encoder(pv, encoder_idx, ds[encoder_idx])
                     ELSE pv,
                 ds, encoder_idx + 1)

\* The slots of the current page a batch of deltas writes.
WrittenByBatch(pv, ds) ==
    {<<"encoder", pv.current_page, i>> : i \in {j \in SlotIdx :
        ds[j] # 0 /\ is_active(SlotAt(pv, pv.current_page, j))}}

\* encoder_task's guarded section with the deltas of one batch.
EncoderWrite(ds) ==
    /\ mutex = "free"
    /\ param_values' = apply_deltas(param_values, ds, 0)
    /\ ProducerHistory(param_values, param_values', WrittenByBatch(param_values, ds))
    /\ UNCHANGED <<mutex, callVars, oledVars, last_cycle, encVars, hwVars>>

\* A guarded update_from_i2c by the receiver of external writes.
ExternalWrite(global_idx, value) ==
    /\ mutex = "free"
    /\ LET r == update_from_i2c(param_values, global_idx, value) IN
       /\ param_values' = r.pv
       /\ ProducerHistory(param_values, r.pv,
              {<<"i2c", global_idx \div PARAMS_PER_PAGE, global_idx % PARAMS_PER_PAGE>>})
    /\ UNCHANGED <<mutex, callVars, oledVars, last_cycle, encVars, hwVars>>

\* A guarded set_page or set_active_page by the page navigator.
PageSwitch(page, redraw) ==
    /\ mutex = "free"
    /\ LET r == IF redraw THEN set_active_page(param_values, page)
                          ELSE set_page(param_values, page) IN
       /\ param_values' = r.pv
       /\ ProducerHistory(param_values, r.pv, {<<"page", 0, 0>>})
    /\ UNCHANGED <<mutex, callVars, oledVars, last_cycle, encVars, hwVars>>

\* Batches of deltas: encoder 3 moved, the others did not.
DeltaBatches ==
    {[i \in SlotIdx |-> IF i = 3 THEN d ELSE 0] : d \in EncoderDeltas}

\* Global indices written while the display runs: (0,3) Active, (2,3) Null, past the end.
DisplayGlobalArgs == {3, 11, TOTAL_SLOTS}

\* Values written by the external engine while the display runs.
DisplayExtValues == {3 * ExtStep}

DisplayNext ==
    \/ OledTask
    \/ \E ds \in DeltaBatches : EncoderWrite(ds)
    \/ \E global_idx \in DisplayGlobalArgs, value \in DisplayExtValues :
           ExternalWrite(global_idx, value)
    \/ \E page \in PageArgs, redraw \in BOOLEAN : PageSwitch(page, redraw)

DisplaySpec == Init /\ [][DisplayNext]_vars

\* ------------------------------------------------------------------------
\* encoder_task and the encoder board
\* ------------------------------------------------------------------------

ENCODER_COUNT == 4

\* Largest distance, in movements of DeltaStep, of a position counter from 0.
MaxTicks == 1

\* The encoders that are turned.
MovingEncoders == {3}

\* The board: an encoder is turned by one movement; its interrupt flag is set.
HwMove(i, d) ==
    /\ hw_positions[i] + d >= -(MaxTicks * DeltaStep)
    /\ hw_positions[i] + d <= MaxTicks * DeltaStep
    /\ hw_positions' = [hw_positions EXCEPT ![i] = @ + d]
    /\ int_low' = TRUE
    /\ UNCHANGED <<storeVars, callVars, oledVars, oledHistory, encVars, i2c_bus>>

\* A read whose failure in the loop goes on with the positions read so far.
EncReadPositionUsesPartial ==
    /\ enc_pc \in {"init_read", "read"}
    /\ \E ok \in BOOLEAN :
          IF ok
              THEN LET got == [positions EXCEPT ![read_idx] = hw_positions[read_idx]] IN
                   IF read_idx + 1 < ENCODER_COUNT
                       THEN /\ positions' = got
                            /\ read_idx' = read_idx + 1
                            /\ UNCHANGED <<enc_pc, previous_positions, last_good, accounted>>
                       ELSE /\ read_idx' = 0
                            /\ last_good' = got
                            /\ accounted' = IF enc_pc = "init_read" THEN got ELSE accounted
                            /\ IF enc_pc = "init_read"
                                   THEN /\ previous_positions' = got
                                        /\ positions' = Zeros
                                        /\ enc_pc' = "wait"
                                   ELSE /\ positions' = got
                                        /\ enc_pc' = "clear"
                                        /\ UNCHANGED previous_positions
              ELSE /\ read_idx' = 0
                   /\ IF enc_pc = "init_read"
                          THEN positions' = Zeros /\ enc_pc' = "wait"
                          ELSE positions' = positions /\ enc_pc' = "clear"
                   /\ UNCHANGED <<previous_positions, last_good, accounted>>
    /\ i2c_bus' = "free"
    /\ UNCHANGED <<storeVars, callVars, oledVars, oledHistory, deltas, update_idx,
                   hw_positions, int_low>>

\* One read_position of read_all_positions, in the initial read and in the loop:
\* the batch ends at the first error with no positions, or after ENCODER_COUNT reads.
EncReadPosition ==
    /\ enc_pc \in {"init_read", "read"}
    /\ \E ok \in BOOLEAN :
          IF ok
              THEN LET got == [positions EXCEPT ![read_idx] = hw_positions[read_idx]] IN
                   IF read_idx + 1 < ENCODER_COUNT
                       THEN /\ positions' = got
                            /\ read_idx' = read_idx + 1
                            /\ UNCHANGED <<enc_pc, previous_positions, last_good, accounted>>
                       ELSE /\ read_idx' = 0
                            /\ last_good' = got
                            /\ accounted' = IF enc_pc = "init_read" THEN got ELSE accounted
                            /\ IF enc_pc = "init_read"
                                   THEN /\ previous_positions' = got
                                        /\ positions' = Zeros
                                        /\ enc_pc' = "wait"
                                   ELSE /\ positions' = got
                                        /\ enc_pc' = "clear"
                                        /\ UNCHANGED previous_positions
              ELSE /\ positions' = Zeros
                   /\ read_idx' = 0
                   /\ enc_pc' = IF enc_pc = "init_read" THEN "wait" ELSE "clear_err"
                   /\ UNCHANGED <<previous_positions, last_good, accounted>>
    /\ i2c_bus' = "free"
    /\ UNCHANGED <<storeVars, callVars, oledVars, oledHistory, deltas, update_idx,
                   hw_positions, int_low>>

\* int_pin.wait_for_low().await
EncWaitForLow ==
    /\ enc_pc = "wait"
    /\ int_low
    /\ enc_pc' = "read"
    /\ UNCHANGED <<storeVars, callVars, oledVars, oledHistory, previous_positions,
                   positions, read_idx, update_idx, deltas, hwVars, last_good, accounted>>

\* The read failed: clear_interrupt_flags, its result dropped, then continue.
EncClearAfterError ==
    /\ enc_pc = "clear_err"
    /\ \E ok \in BOOLEAN : int_low' = IF ok THEN FALSE ELSE int_low
    /\ enc_pc' = "wait"
    /\ i2c_bus' = "free"
    /\ UNCHANGED <<storeVars, callVars, oledVars, oledHistory, previous_positions,
                   positions, read_idx, update_idx, deltas, hw_positions, last_good, accounted>>

\* deltas[i] = positions[i] - previous_positions[i]
compute_deltas(pos, prev) == [i \in SlotIdx |-> WrappingSub(pos[i], prev[i])]

\* A wake that computes its deltas and leaves the baseline as it was.
EncClearAndDiffKeepsBaseline ==
    /\ enc_pc = "clear"
    /\ \E ok \in BOOLEAN : int_low' = IF ok THEN FALSE ELSE int_low
    /\ previous_positions' = previous_positions
    /\ positions' = Zeros
    /\ LET d == compute_deltas(positions, previous_positions) IN
       IF \A i \in SlotIdx : d[i] = 0
           THEN /\ deltas' = Zeros
                /\ enc_pc' = "wait"
           ELSE /\ deltas' = d
                /\ enc_pc' = "lock"
    /\ i2c_bus' = "free"
    /\ UNCHANGED <<storeVars, callVars, oledVars, oledHistory, read_idx, update_idx, hw_positions,
                   last_good, accounted>>

\* A wake whose clear_interrupt_flags keeps the bus into the guarded block.
EncClearAndDiffKeepsBus ==
    /\ enc_pc = "clear"
    /\ \E ok \in BOOLEAN : int_low' = IF ok THEN FALSE ELSE int_low
    /\ previous_positions' = positions
    /\ positions' = Zeros
    /\ LET d == compute_deltas(positions, previous_positions) IN
       IF \A i \in SlotIdx : d[i] = 0
           THEN /\ deltas' = Zeros
                /\ enc_pc' = "wait"
           ELSE /\ deltas' = d
                /\ enc_pc' = "lock"
    /\ UNCHANGED <<storeVars, callVars, oledVars, oledHistory, read_idx, update_idx, hw_positions,
                   i2c_bus, last_good, accounted>>

\* clear_interrupt_flags after a good read, then the deltas and the new baseline;
\* with all deltas zero the wake ends here.
EncClearAndDiff ==
    /\ enc_pc = "clear"
    /\ \E ok \in BOOLEAN : int_low' = IF ok THEN FALSE ELSE int_low
    /\ previous_positions' = positions
    /\ positions' = Zeros
    /\ LET d == compute_deltas(positions, previous_positions) IN
       IF \A i \in SlotIdx : d[i] = 0
           THEN /\ deltas' = Zeros
                /\ enc_pc' = "wait"
           ELSE /\ deltas' = d
                /\ enc_pc' = "lock"
    /\ i2c_bus' = "free"
    /\ UNCHANGED <<storeVars, callVars, oledVars, oledHistory, read_idx, update_idx, hw_positions,
                   last_good, accounted>>

\* A lock that lets encoder_task in whoever holds the mutex.
EncLockIgnoresMutex ==
    /\ enc_pc = "lock"
    /\ mutex' = "encoder"
    /\ enc_pc' = "update"
    /\ UNCHANGED <<param_values, callVars, oledVars, oledHistory, previous_positions,
                   positions, read_idx, update_idx, deltas, hwVars, last_good, accounted>>

\* param_values.lock().await
EncLock ==
    /\ enc_pc = "lock"
    /\ mutex = "free"
    /\ mutex' = "encoder"
    /\ enc_pc' = "update"
    /\ UNCHANGED <<param_values, callVars, oledVars, oledHistory, previous_positions,
                   positions, read_idx, update_idx, deltas, hwVars, last_good, accounted>>

\* A guarded update that calls update_from_encoder for every slot, moved or not.
EncUpdateAllSlots ==
    /\ enc_pc = "update"
    /\ param_values' =
           update_from_encoder(
               update_from_encoder(
                   update_from_encoder(
                       update_from_encoder(param_values, 0, deltas[0]),
                       1, deltas[1]),
                   2, deltas[2]),
               3, deltas[3])
    /\ ProducerHistory(param_values, param_values', WrittenByBatch(param_values, deltas))
    /\ mutex' = "free"
    /\ deltas' = Zeros
    /\ enc_pc' = "wait"
    /\ UNCHANGED <<callVars, oledVars, last_cycle, previous_positions, positions,
                   read_idx, update_idx, hwVars, last_good>>
    /\ accounted' = [i \in SlotIdx |-> accounted[i] + deltas[i]]

\* The guarded update: update_from_encoder for every non-zero delta, then release.
EncUpdate ==
    /\ enc_pc = "update"
    /\ param_values' = apply_deltas(param_values, deltas, 0)
    /\ ProducerHistory(param_values, param_values', WrittenByBatch(param_values, deltas))
    /\ mutex' = "free"
    /\ deltas' = Zeros
    /\ enc_pc' = "wait"
    /\ UNCHANGED <<callVars, oledVars, last_cycle, previous_positions, positions,
                   read_idx, update_idx, hwVars, last_good>>
    /\ accounted' = [i \in SlotIdx |-> accounted[i] + deltas[i]]

EncoderTask ==
    \/ EncReadPosition
    \/ EncWaitForLow
    \/ EncClearAfterError
    \/ EncClearAndDiff
    \/ EncLock
    \/ EncUpdate

\* ------------------------------------------------------------------------
\* Spec: the firmware of main(): the display task, the encoder task, the board
\* ------------------------------------------------------------------------

Next ==
    \/ OledTask
    \/ EncoderTask
    \/ \E i \in MovingEncoders, d \in EncoderDeltas : HwMove(i, d)

Spec == Init /\ [][Next]_vars

\* ------------------------------------------------------------------------
\* Projections of the store used by the properties
\* ------------------------------------------------------------------------

AllSlots == PageIdx \X SlotIdx

ActiveSlots(pv) == {ps \in AllSlots : is_active(SlotAt(pv, ps[1], ps[2]))}

ParamAt(pv, page, slot) == SlotAt(pv, page, slot).param

OledFlags(pv) ==
    [ps \in AllSlots |->
        IF is_active(SlotAt(pv, ps[1], ps[2])) THEN ParamAt(pv, ps[1], ps[2]).changed_oled
                                              ELSE FALSE]

I2cFlags(pv) ==
    [ps \in AllSlots |->
        IF is_active(SlotAt(pv, ps[1], ps[2])) THEN ParamAt(pv, ps[1], ps[2]).changed_i2c
                                              ELSE FALSE]

Values(pv) ==
    [ps \in AllSlots |->
        IF is_active(SlotAt(pv, ps[1], ps[2])) THEN SomeValue(ParamAt(pv, ps[1], ps[2]).value)
                                              ELSE NoValue]

\* ------------------------------------------------------------------------
\* Properties of the store (StoreSpec)
\* ------------------------------------------------------------------------

\* C4 (anti-echo): no entry returned by take_i2c_changes carries a value that
\* reached its parameter through update_from_i2c.
C4_AntiEcho ==
    last_call.op = "take_i2c_changes" =>
        \A i \in DOMAIN last_call.out :
            value_origin[GlobalOf(last_call.out[i].page, last_call.out[i].encoder)] # "i2c"

\* C5 (flag independence): a successful update_from_i2c sets changed_oled of its
\* target and leaves the target's changed_i2c as it was; update_from_encoder on
\* an Active slot sets both flags, whatever they were before.
C5_FlagIndependence ==
    [][ /\ \A g \in GlobalArgs, v \in ExtValues :
              (CallUpdateFromI2c(g, v) /\ last_call'.res = "Ok") =>
                  LET pe == global_to_page_encoder(g)
                      before == ParamAt(param_values, pe.page, pe.encoder)
                      after == ParamAt(param_values', pe.page, pe.encoder)
                  IN  /\ after.changed_oled
                      /\ after.changed_i2c = before.changed_i2c
        /\ \A e \in SlotArgs, d \in EncoderDeltas :
              (/\ CallUpdateFromEncoder(e, d)
               /\ e < PARAMS_PER_PAGE
               /\ is_active(SlotAt(param_values, param_values.current_page, e))) =>
                  LET after == ParamAt(param_values', param_values.current_page, e)
                  IN  after.changed_oled /\ after.changed_i2c
      ]_vars

\* C5 witness: an external write has just landed on a parameter whose
\* changed_i2c was set by an earlier encoder write and is still set.
C5_Witness ==
    /\ last_call.op = "update_from_i2c"
    /\ last_call.res = "Ok"
    /\ LET pe == global_to_page_encoder(last_call.args[1])
       IN  /\ ParamAt(param_values, pe.page, pe.encoder).changed_i2c
           /\ ParamAt(param_values, pe.page, pe.encoder).changed_oled

ClampInv ==
    \A ps \in ActiveSlots(param_values) :
        LET param == ParamAt(param_values, ps[1], ps[2])
        IN  param.min_value <= param.value /\ param.value <= param.max_value

\* The bound an out-of-range target value v is brought to.
NearerBound(param, v) ==
    IF v > param.max_value THEN param.max_value
    ELSE IF v < param.min_value THEN param.min_value
    ELSE v

\* C6 (clamp invariant): every Active parameter has min <= value <= max in every
\* reachable state, and a write whose target value is out of range is accepted
\* and leaves the parameter at the nearer bound.
C6_ClampInvariant ==
    /\ []ClampInv
    /\ [][ /\ \A g \in GlobalArgs, v \in ExtValues :
                 (/\ CallUpdateFromI2c(g, v)
                  /\ g < TOTAL_SLOTS
                  /\ is_active(SlotAt(param_values, g \div PARAMS_PER_PAGE,
                                      g % PARAMS_PER_PAGE))) =>
                     LET page == g \div PARAMS_PER_PAGE
                         slot == g % PARAMS_PER_PAGE
                     IN  /\ last_call'.res = "Ok"
                         /\ ParamAt(param_values', page, slot).value =
                                NearerBound(ParamAt(param_values, page, slot), v)
           /\ \A e \in SlotArgs, d \in EncoderDeltas :
                 (/\ CallUpdateFromEncoder(e, d)
                  /\ e < PARAMS_PER_PAGE
                  /\ is_active(SlotAt(param_values, param_values.current_page, e))) =>
                     LET before == ParamAt(param_values, param_values.current_page, e)
                     IN  ParamAt(param_values', param_values.current_page, e).value =
                             NearerBound(before, before.value + d)
         ]_vars

\* C6 witness: an external write of a value above max has been accepted and
\* has left its parameter at max.
C6_Witness ==
    /\ last_call.op = "update_from_i2c"
    /\ last_call.res = "Ok"
    /\ LET pe == global_to_page_encoder(last_call.args[1])
           param == ParamAt(param_values, pe.page, pe.encoder)
       IN  last_call.args[2] > param.max_value /\ param.value = param.max_value

\* C10 (cross-flag isolation): take_oled_changes changes no changed_i2c flag and
\* take_i2c_changes changes no changed_oled flag; neither changes a value, a
\* slot variant or the page cursor.
C10_CrossFlagIsolation ==
    [][ /\ (last_call'.op = "take_oled_changes" /\ CallTakeOledChanges) =>
              /\ I2cFlags(param_values') = I2cFlags(param_values)
              /\ Values(param_values') = Values(param_values)
              /\ param_values'.current_page = param_values.current_page
        /\ (last_call'.op = "take_i2c_changes" /\ CallTakeI2cChanges) =>
              /\ OledFlags(param_values') = OledFlags(param_values)
              /\ Values(param_values') = Values(param_values)
              /\ param_values'.current_page = param_values.current_page
      ]_vars

\* C10 witness: take_oled_changes has just returned a parameter whose
\* changed_i2c is still set.
C10_Witness ==
    /\ last_call.op = "take_oled_changes"
    /\ \E i \in DOMAIN last_call.out :
           /\ ParamAt(param_values, last_call.out[i].page,
                      last_call.out[i].encoder).changed_i2c
           /\ ~ParamAt(param_values, last_call.out[i].page,
                       last_call.out[i].encoder).changed_oled

\* ------------------------------------------------------------------------
\* Properties of the display cycle (DisplaySpec)
\* ------------------------------------------------------------------------

\* C1 (snapshot-race safety): a parameter of the snapshotted page that was dirty
\* in Step 1 and that update_from_encoder wrote again between Step 1 and Step 6
\* of the same cycle still has changed_oled set after Step 6.
C1_SnapshotRaceSafety ==
    [][ OledReconcile =>
            \A i \in SlotIdx :
                (snap.flags[i] /\ <<"encoder", snap.page_idx, i>> \in since_snap) =>
                    ParamAt(param_values', snap.page_idx, i).changed_oled
      ]_vars

\* C2 (no update lost): once the cycle that was in progress when the store last
\* changed and the cycle after it have ended, with no render or flush failure
\* since the change, last_state presents the store's current page as it is.
C2_NoUpdateLost ==
    (quiet.cycles >= 2 /\ ~quiet.failed) => last_state = Present(param_values)

\* C2 witness: the store last changed while a cycle was between its snapshot
\* and its end, two cycles have ended since, and last_state shows the store.
C2_Witness ==
    /\ quiet.late
    /\ quiet.cycles >= 2
    /\ ~quiet.failed
    /\ last_state = Present(param_values)
    /\ \E i \in SlotIdx : /\ last_state.param_values[i].some
                          /\ last_state.param_values[i].v # 0

\* C3: Step 6 changes changed_oled of no slot of the snapshotted page that Step 1
\* saw clean; such a slot written by a producer since Step 1 leaves Step 6 with
\* changed_oled set.
C3_ReconcileKeepsUnseen ==
    [][ OledReconcile =>
            \A i \in SlotIdx :
                (~snap.flags[i] /\ is_active(SlotAt(param_values, snap.page_idx, i))) =>
                    /\ ParamAt(param_values', snap.page_idx, i).changed_oled =
                           ParamAt(param_values, snap.page_idx, i).changed_oled
                    /\ (\E kind \in {"encoder", "i2c"} :
                            <<kind, snap.page_idx, i>> \in since_snap) =>
                           ParamAt(param_values', snap.page_idx, i).changed_oled
      ]_vars

\* C3 witness: the last cycle ran through Step 6 and left set the flag of a slot
\* that its snapshot saw clean and a producer wrote during the cycle.
C3_Witness ==
    /\ last_cycle.end = "done"
    /\ last_cycle.kept
    /\ oled_pc = "timer"

\* A render that failed: the task left Step 2 of a cycle whose new_state differs
\* from last_state and the frame buffer holds no finished frame.
RenderFailed ==
    /\ OledStep
    /\ oled_pc = "step2"
    /\ from_params(snap.page_name, snap.names, snap.values) # last_state
    /\ frame_buffer'.kind # "frame"

\* A flush that failed: the task left Step 5 and the screen does not show the
\* frame buffer.
FlushFailed ==
    /\ OledStep
    /\ oled_pc = "flush"
    /\ screen' # frame_buffer

\* A step of the display task in which render or flush fails.
FailureStep == RenderFailed \/ FlushFailed

\* C8: a render or flush failure ends the cycle (the task is back at its timer)
\* with last_state, every value and every flag as they were and the mutex not
\* taken; the task exits only from a failed init; the next cycle, when it
\* snapshots the store as the failed cycle did, finds new_state != last_state.
\* Before a flush the screen never shows the frame about to be flushed, so no
\* failed flush goes unnoticed by FlushFailed.
C8_FailureAbandonsCycle ==
    /\ [][ FailureStep =>
               /\ oled_pc' = "timer"
               /\ last_state' = last_state
               /\ param_values' = param_values
               /\ mutex' = mutex
               /\ mutex # "oled"
         ]_vars
    /\ [][ (oled_pc' = "exited" /\ oled_pc # "exited") => oled_pc = "init" ]_vars
    /\ [](  (retry_pending /\ oled_pc = "step2") =>
               from_params(snap.page_name, snap.names, snap.values) # last_state )
    /\ [](  oled_pc = "flush" => screen # frame_buffer )

\* C8 witness: after a failed cycle the next cycle has taken its snapshot of the
\* unchanged store, some changed_oled flag is still set, and the cycle is about
\* to render again.
C8_Witness ==
    /\ retry_pending
    /\ last_cycle.end = "fail"
    /\ oled_pc = "step2"
    /\ \E i \in SlotIdx : snap.flags[i]
    /\ from_params(snap.page_name, snap.names, snap.values) # last_state

\* C9 (diff throttle): a cycle whose new_state equals last_state goes straight
\* back to the timer: the store, last_state, the frame buffer, the screen and the
\* mutex are untouched; the frame buffer and the screen change, and Steps 5-6
\* are reached, only in cycles whose new_state differs from last_state.
C9_DiffThrottle ==
    /\ [][ (/\ OledTask
            /\ oled_pc = "step2"
            /\ from_params(snap.page_name, snap.names, snap.values) = last_state) =>
               /\ oled_pc' = "timer"
               /\ param_values' = param_values
               /\ last_state' = last_state
               /\ frame_buffer' = frame_buffer
               /\ screen' = screen
               /\ mutex' = mutex
         ]_vars
    /\ [][ (frame_buffer' # frame_buffer \/ screen' # screen) =>
               \/ from_params(snap.page_name, snap.names, snap.values) # last_state
               \/ new_state # last_state
         ]_vars
    /\ [](oled_pc \in {"flush", "lock6", "step6"} => new_state # last_state)

\* C9 witness: the last cycle was skipped while a changed_oled flag of the
\* current page was set, and the task is back at its timer.
C9_Witness ==
    /\ last_cycle.end = "skip"
    /\ oled_pc = "timer"
    /\ last_state = Present(param_values)
    /\ \E i \in SlotIdx : /\ is_active(SlotAt(param_values, param_values.current_page, i))
                          /\ ParamAt(param_values, param_values.current_page, i).changed_oled


\* ------------------------------------------------------------------------
\* The store's mutex and the suspension points of the two tasks
\* ------------------------------------------------------------------------

\* Where the display task is suspended on I/O, on the timer or on the mutex itself.
OledSuspended == oled_pc \in {"init", "timer", "lock1", "step2", "flush", "lock6", "exited"}

\* Where the encoder task is suspended on the INT pin, on the I2C bus or on the mutex.
EncSuspended == enc_pc \in {"init_read", "wait", "read", "clear", "clear_err", "lock"}

\* C7: the display task does not hold the store's mutex during display init, the
\* timer wait, render or flush, and the encoder task does not hold it while it
\* waits for the interrupt, reads the positions or clears the interrupt flags.
C7_LockNotHeldAcrossIO ==
    /\ OledSuspended => mutex # "oled"
    /\ EncSuspended => mutex # "encoder"

\* The display is flushing a frame while the encoder task is inside its guarded update.
C7_Witness ==
    /\ oled_pc = "flush"
    /\ enc_pc = "update"
    /\ mutex = "encoder"


\* ------------------------------------------------------------------------
\* The drains, the page cursor and the writes' failure modes (StoreSpec)
\* ------------------------------------------------------------------------

\* The Active slots whose changed_oled / changed_i2c is set.
DirtyOled(pv) == {ps \in ActiveSlots(pv) : ParamAt(pv, ps[1], ps[2]).changed_oled}

DirtyI2c(pv) == {ps \in ActiveSlots(pv) : ParamAt(pv, ps[1], ps[2]).changed_i2c}

\* r is the drain result for the set dirty of slots of the store pv: one entry per
\* dirty slot with the table's name, the value, the page and the slot, in
\* ascending global index at positions 1 .. count, nothing after them.
IsDrainOf(r, pv, dirty) ==
    /\ r.count = Cardinality(dirty)
    /\ \A i \in 1 .. TOTAL_SLOTS : (i > r.count) <=> (r.result[i] = NoChange)
    /\ \A i \in 1 .. r.count :
           LET e == r.result[i] IN
           /\ <<e.page, e.encoder>> \in dirty
           /\ e.name # None
           /\ e.name = PARAM_NAMES[e.page + 1][e.encoder + 1]
           /\ e.value = ParamAt(pv, e.page, e.encoder).value
    /\ \A i, j \in 1 .. r.count :
           i < j => GlobalOf(r.result[i].page, r.result[i].encoder) <
                    GlobalOf(r.result[j].page, r.result[j].encoder)

\* C11 (drain result): take_oled_changes returns exactly the Active parameters
\* whose changed_oled is set, each once, with name, value, page and slot, in
\* ascending global index at the front of the result and nothing behind them;
\* take_i2c_changes does the same for changed_i2c.
C11_DrainResult ==
    [][ /\ (last_call'.op = "take_oled_changes" /\ CallTakeOledChanges) =>
              /\ IsDrainOf(take_oled_changes(param_values), param_values,
                           DirtyOled(param_values))
              /\ last_call'.out = SubSeq(take_oled_changes(param_values).result, 1,
                                         Cardinality(DirtyOled(param_values)))
        /\ (last_call'.op = "take_i2c_changes" /\ CallTakeI2cChanges) =>
              /\ IsDrainOf(take_i2c_changes(param_values), param_values,
                           DirtyI2c(param_values))
              /\ last_call'.out = SubSeq(take_i2c_changes(param_values).result, 1,
                                         Cardinality(DirtyI2c(param_values)))
      ]_vars

\* C11 witness: take_oled_changes has just returned entries of two pages, one of
\* them with a value other than the default.
C11_Witness ==
    /\ last_call.op = "take_oled_changes"
    /\ Len(last_call.out) >= 3
    /\ \E i, j \in DOMAIN last_call.out :
           /\ last_call.out[i].page # last_call.out[j].page
           /\ last_call.out[i].value # 0

\* C12 (drain idempotence): right after take_oled_changes no parameter has
\* changed_oled set, and a take_oled_changes that directly follows another one
\* returns nothing; likewise take_i2c_changes and changed_i2c.
C12_DrainIdempotence ==
    /\ last_call.op = "take_oled_changes" => DirtyOled(param_values) = {}
    /\ last_call.op = "take_i2c_changes" => DirtyI2c(param_values) = {}
    /\ (last_call.op \in {"take_oled_changes", "take_i2c_changes"} /\
        prev_call.op = last_call.op) => last_call.out = <<>>

\* C12 witness: a take_i2c_changes that returned entries was directly followed
\* by a second one, which returned none.
C12_Witness ==
    /\ last_call.op = "take_i2c_changes"
    /\ prev_call.op = "take_i2c_changes"
    /\ prev_call.some
    /\ last_call.out = <<>>


\* The slot variants of the whole store.
Variants(pv) == [ps \in AllSlots |-> is_active(SlotAt(pv, ps[1], ps[2]))]

\* C13 (page-switch redraw): a set_active_page(p) with p < N_PAGES returns Ok and
\* leaves current_page = p and changed_oled set on every Active slot of page p;
\* every changed_i2c flag, every value, every slot variant and the changed_oled
\* flags of the other pages are as before.
C13_PageSwitchRedraw ==
    [][ \A p \in PageArgs :
            (last_call'.op = "set_active_page" /\ CallSetActivePage(p) /\ p < N_PAGES) =>
                /\ last_call'.res = "Ok"
                /\ param_values'.current_page = p
                /\ \A i \in SlotIdx :
                       is_active(SlotAt(param_values, p, i)) =>
                           ParamAt(param_values', p, i).changed_oled
                /\ I2cFlags(param_values') = I2cFlags(param_values)
                /\ Values(param_values') = Values(param_values)
                /\ Variants(param_values') = Variants(param_values)
                /\ \A ps \in AllSlots :
                       ps[1] # p => OledFlags(param_values')[ps] = OledFlags(param_values)[ps]
      ]_vars

\* C13 witness: set_active_page(2) has just marked a parameter of page 2 that was
\* never written, while a parameter of page 0 waits for the external drain with
\* its changed_oled already drained.
C13_Witness ==
    /\ last_call.op = "set_active_page"
    /\ last_call.res = "Ok"
    /\ last_call.args = <<2>>
    /\ param_values.current_page = 2
    /\ ParamAt(param_values, 2, 1).changed_oled
    /\ ~ParamAt(param_values, 2, 1).changed_i2c
    /\ ParamAt(param_values, 0, 3).changed_i2c
    /\ ~ParamAt(param_values, 0, 3).changed_oled

\* C14: a set_page(p) with p < N_PAGES returns Ok and changes the cursor only:
\* the store afterwards is the store before with current_page = p.
C14_SetPageCursorOnly ==
    [][ \A p \in PageArgs :
            (last_call'.op = "set_page" /\ CallSetPage(p) /\ p < N_PAGES) =>
                /\ last_call'.res = "Ok"
                /\ param_values'.current_page = p
                /\ param_values'.pages = param_values.pages
      ]_vars

\* C14 witness: set_page(2) has just moved the cursor from page 0 to page 2, no
\* parameter of page 2 is marked, and a parameter of page 0 is.
C14_Witness ==
    /\ last_call.op = "set_page"
    /\ last_call.res = "Ok"
    /\ last_call.args = <<2>>
    /\ param_values.current_page = 2
    /\ \A ps \in DirtyOled(param_values) : ps[1] # 2
    /\ ParamAt(param_values, 0, 3).changed_oled

\* C15: set_page(p) and set_active_page(p) with p >= N_PAGES return
\* InvalidPageIndex and leave the store, cursor included, as it was.
C15_InvalidPageIndex ==
    [][ \A p \in PageArgs :
            /\ (last_call'.op = "set_page" /\ CallSetPage(p) /\ p >= N_PAGES) =>
                   /\ last_call'.res = "InvalidPageIndex"
                   /\ param_values' = param_values
            /\ (last_call'.op = "set_active_page" /\ CallSetActivePage(p) /\ p >= N_PAGES) =>
                   /\ last_call'.res = "InvalidPageIndex"
                   /\ param_values' = param_values
      ]_vars

\* C15 witness: a set_active_page past the last page has just been refused with
\* the cursor on page 2 and no parameter of page 2 marked.
C15_Witness ==
    /\ last_call.op = "set_active_page"
    /\ last_call.res = "InvalidPageIndex"
    /\ last_call.args = <<N_PAGES>>
    /\ param_values.current_page = 2
    /\ \A ps \in DirtyOled(param_values) : ps[1] # 2


\* C16: update_from_i2c(g, v) returns InvalidGlobalIndex for g >= N_PAGES *
\* PARAMS_PER_PAGE and NullSlot for a g whose slot is Null, the store unchanged in
\* both cases; otherwise it returns Ok and the parameter at (g div K, g mod K)
\* holds v brought into [min, max], on whatever page the cursor is, with every
\* other slot and the cursor as before.
C16_ExternalWriteOutcome ==
    [][ \A g \in GlobalArgs, v \in ExtValues :
            (last_call'.op = "update_from_i2c" /\ CallUpdateFromI2c(g, v)) =>
                IF g >= N_PAGES * PARAMS_PER_PAGE
                    THEN /\ last_call'.res = "InvalidGlobalIndex"
                         /\ param_values' = param_values
                ELSE LET page == g \div PARAMS_PER_PAGE
                         slot == g % PARAMS_PER_PAGE
                     IN  IF ~is_active(SlotAt(param_values, page, slot))
                             THEN /\ last_call'.res = "NullSlot"
                                  /\ param_values' = param_values
                             ELSE /\ last_call'.res = "Ok"
                                  /\ is_active(SlotAt(param_values', page, slot))
                                  /\ ParamAt(param_values', page, slot).value =
                                         NearerBound(ParamAt(param_values, page, slot), v)
                                  /\ param_values'.current_page = param_values.current_page
                                  /\ \A ps \in AllSlots :
                                         ps # <<page, slot>> =>
                                             SlotAt(param_values', ps[1], ps[2]) =
                                                 SlotAt(param_values, ps[1], ps[2])
      ]_vars

\* C16 witness: with the cursor on page 0, an external write to global index 8
\* has just been accepted and its value is in the parameter of page 2, slot 0.
C16_Witness ==
    /\ last_call.op = "update_from_i2c"
    /\ last_call.res = "Ok"
    /\ last_call.args = <<8, ExtStep>>
    /\ param_values.current_page = 0
    /\ ParamAt(param_values, 2, 0).value = ExtStep
    /\ ParamAt(param_values, 0, 0).value = 0

\* C17 (encoder no-op): update_from_encoder with a slot index >= PARAMS_PER_PAGE,
\* or on a Null slot of the current page, returns and leaves the whole store as
\* it was.
C17_EncoderNoOp ==
    [][ \A e \in SlotArgs, d \in EncoderDeltas :
            (/\ last_call'.op = "update_from_encoder"
             /\ CallUpdateFromEncoder(e, d)
             /\ \/ e >= PARAMS_PER_PAGE
                \/ ~is_active(SlotAt(param_values, param_values.current_page, e))) =>
                /\ last_call'.res = "Ok"
                /\ param_values' = param_values
      ]_vars

\* C17 witness: an encoder delta has just been sent to the Null slot 3 of page 2
\* in a store that holds written values and set flags.
C17_Witness ==
    /\ last_call.op = "update_from_encoder"
    /\ last_call.args[1] = 3
    /\ param_values.current_page = 2
    /\ ~is_active(SlotAt(param_values, 2, 3))
    /\ ParamAt(param_values, 0, 3).value # 0
    /\ ParamAt(param_values, 0, 3).changed_i2c

\* Largest global index the decoding is examined at.
MaxGlobalIdx == 20

\* C18 (global-index bijection): every g < N_PAGES * PARAMS_PER_PAGE decodes to a
\* page < N_PAGES and a slot < PARAMS_PER_PAGE with page * PARAMS_PER_PAGE + slot
\* = g; distinct g decode to distinct (page, slot); every (page, slot) is decoded
\* from some g; every g >= N_PAGES * PARAMS_PER_PAGE is rejected, and
\* update_from_i2c reports InvalidGlobalIndex for exactly those.
C18_GlobalIndexBijection ==
    LET Valid == {g \in 0 .. MaxGlobalIdx : g < N_PAGES * PARAMS_PER_PAGE}
        At(g) == <<global_to_page_encoder(g).page, global_to_page_encoder(g).encoder>>
    IN  /\ \A g \in Valid :
               /\ global_to_page_encoder(g).res = "Ok"
               /\ At(g)[1] \in 0 .. (N_PAGES - 1)
               /\ At(g)[2] \in 0 .. (PARAMS_PER_PAGE - 1)
               /\ At(g)[1] * PARAMS_PER_PAGE + At(g)[2] = g
        /\ \A g, h \in Valid : g # h => At(g) # At(h)
        /\ \A ps \in AllSlots : \E g \in Valid : At(g) = ps
        /\ \A g \in (0 .. MaxGlobalIdx) \ Valid :
               global_to_page_encoder(g).res = "InvalidGlobalIndex"
        /\ last_call.op = "update_from_i2c" =>
               ((last_call.res = "InvalidGlobalIndex") <=>
                    (last_call.args[1] >= N_PAGES * PARAMS_PER_PAGE))

\* C18 witness: external writes to the global indices 3 and 8 have landed in two
\* different slots, (0, 3) and (2, 0), the one to 3 just now.
C18_Witness ==
    /\ last_call.op = "update_from_i2c"
    /\ last_call.res = "Ok"
    /\ last_call.args[1] = 3
    /\ value_origin[3] = "i2c"
    /\ value_origin[8] = "i2c"
    /\ ParamAt(param_values, 0, 3).value = NearerBound(ParameterDefault, last_call.args[2])
    /\ ParamAt(param_values, 2, 0).value # 0


\* ------------------------------------------------------------------------
\* LayoutSpec: every operation that touches the store: its API and the display
\* task's Steps 1 and 6
\* ------------------------------------------------------------------------

LayoutNext ==
    \/ CallSetPage(2)
    \/ CallSetActivePage(2)
    \/ CallUpdateFromEncoder(3, DeltaStep)
    \/ CallUpdateFromI2c(8, ExtStep)
    \/ CallTakeOledChanges
    \/ CallTakeI2cChanges
    \/ OledTask

LayoutSpec == Init /\ [][LayoutNext]_vars

\* A slot is Active exactly where the layout table has a name.
LayoutInv ==
    \A ps \in AllSlots :
        is_active(SlotAt(param_values, ps[1], ps[2])) <=>
            (PARAM_NAMES[ps[1] + 1][ps[2] + 1] # None)

\* C19 (layout invariant): in the store built by new and after every operation
\* (page switch, encoder write, external write, drain, display reconcile) a slot
\* is Active iff the layout table has a name for it; no step changes a slot's
\* variant; every entry a drain returns has a name.
C19_LayoutInvariant ==
    /\ []LayoutInv
    /\ [][Variants(param_values') = Variants(param_values)]_vars
    /\ [](last_call.op \in {"take_oled_changes", "take_i2c_changes"} =>
              \A i \in DOMAIN last_call.out : last_call.out[i].name # None)

\* C19 witness: the store has been through an encoder write on page 0, an
\* external write, a page switch, a display reconcile and a drain, and an
\* encoder delta has just been sent to the Null slot of page 2.
C19_Witness ==
    /\ last_call.op = "update_from_encoder"
    /\ prev_call.op = "take_oled_changes"
    /\ prev_call.some
    /\ last_cycle.end = "done"
    /\ param_values.current_page = 2
    /\ ~is_active(SlotAt(param_values, 2, 3))
    /\ value_origin[3] = "encoder"
    /\ value_origin[8] = "i2c"


\* ------------------------------------------------------------------------
\* The encoder task's baseline (Spec)
\* ------------------------------------------------------------------------

\* C20 (encoder batch failure): a wake whose batched read fails goes to the
\* clearing of the interrupt flags and back to the wait with the baseline, the
\* deltas and the store untouched; outside the moment between a good read and
\* its deltas the baseline is the last batch that was read successfully, and
\* deltas are only ever computed from such a batch, against that baseline.
C20_BatchFailureKeepsBaseline ==
    /\ [](enc_pc \in {"wait", "read", "clear_err", "lock", "update"} =>
              previous_positions = last_good)
    /\ [](enc_pc = "clear" => positions = last_good)
    /\ [][ (enc_pc = "read" /\ enc_pc' \notin {"read", "clear"}) =>
               /\ enc_pc' = "clear_err"
               /\ previous_positions' = previous_positions
               /\ deltas' = deltas
               /\ param_values' = param_values
               /\ mutex' = mutex
         ]_vars
    /\ [][ (enc_pc = "clear_err" /\ enc_pc' # "clear_err") =>
               /\ enc_pc' = "wait"
               /\ previous_positions' = previous_positions
               /\ deltas' = deltas
               /\ param_values' = param_values
               /\ mutex' = mutex
         ]_vars
    /\ [][ (enc_pc = "clear" /\ enc_pc' # "clear") =>
               /\ previous_positions' = last_good
               /\ enc_pc' \in {"wait", "lock"}
               /\ (enc_pc' = "lock") <=>
                      (\E i \in SlotIdx : last_good[i] # previous_positions[i])
               /\ enc_pc' = "lock" =>
                      deltas' = [i \in SlotIdx |-> last_good[i] - previous_positions[i]]
         ]_vars

\* C20 witness: a wake's read has just failed after the encoder moved twice
\* since the last good read, whose delta is in the store; the baseline is still
\* that good read.
C20_Witness ==
    /\ enc_pc = "clear_err"
    /\ previous_positions[3] = DeltaStep
    /\ last_good = previous_positions
    /\ hw_positions[3] = -DeltaStep
    /\ ParamAt(param_values, 0, 3).value = DeltaStep
    /\ deltas = Zeros


\* C21: after a good read the encoder task takes delta[i] = positions[i] -
\* previous_positions[i] and makes the read positions its baseline, also when
\* every delta is zero; with every delta zero it goes back to the wait without
\* taking the mutex or touching the store; otherwise its guarded update writes
\* the slots of the current page with a non-zero delta (value brought into
\* [min, max], both flags set) and leaves every other slot, flags included, and
\* the cursor as they were.
C21_DeltasAndBaseline ==
    /\ [][ (enc_pc = "clear" /\ enc_pc' # "clear") =>
               LET d == [i \in SlotIdx |-> positions[i] - previous_positions[i]] IN
               /\ previous_positions' = positions
               /\ param_values' = param_values
               /\ mutex' = mutex
               /\ IF \A i \in SlotIdx : d[i] = 0
                      THEN enc_pc' = "wait" /\ deltas' = Zeros
                      ELSE enc_pc' = "lock" /\ deltas' = d
         ]_vars
    /\ [](enc_pc \in {"lock", "update"} => \E i \in SlotIdx : deltas[i] # 0)
    /\ [](mutex = "encoder" => enc_pc = "update")
    /\ [][ (enc_pc = "update" /\ enc_pc' # "update") =>
               LET page == param_values.current_page IN
               /\ param_values'.current_page = page
               /\ \A ps \in AllSlots :
                      IF ps[1] = page /\ deltas[ps[2]] # 0 /\
                         is_active(SlotAt(param_values, ps[1], ps[2]))
                          THEN LET before == ParamAt(param_values, ps[1], ps[2])
                                   after == ParamAt(param_values', ps[1], ps[2])
                               IN  /\ after.value =
                                          NearerBound(before, before.value + deltas[ps[2]])
                                   /\ after.changed_oled
                                   /\ after.changed_i2c
                          ELSE SlotAt(param_values', ps[1], ps[2]) =
                                   SlotAt(param_values, ps[1], ps[2])
         ]_vars

\* C21 witness: the encoder task is back at its wait after a guarded update that
\* wrote slot 3 and left slot 0 unmarked, and the board has moved back to the
\* baseline of before that wake.
C21_Witness ==
    /\ enc_pc = "wait"
    /\ previous_positions[3] = DeltaStep
    /\ ParamAt(param_values, 0, 3).value = DeltaStep
    /\ ParamAt(param_values, 0, 3).changed_i2c
    /\ ~ParamAt(param_values, 0, 0).changed_i2c
    /\ ~ParamAt(param_values, 0, 0).changed_oled
    /\ hw_positions[3] = 0
    /\ int_low


\* ------------------------------------------------------------------------
\* The display task's start (DisplaySpec)
\* ------------------------------------------------------------------------

\* C22: the display task has exited exactly when its init failed; once exited it
\* stays exited and never holds the mutex, never touches the frame buffer, the
\* screen or last_state and never clears a changed_oled flag; a task whose init
\* succeeded never exits.
C22_InitFailureTerminal ==
    /\ [](oled_pc # "init" => (initialized <=> oled_pc # "exited"))
    /\ [](oled_pc = "exited" => mutex # "oled")
    /\ [][ oled_pc = "exited" =>
               /\ oled_pc' = "exited"
               /\ mutex' # "oled"
               /\ initialized' = initialized
               /\ frame_buffer' = frame_buffer
               /\ screen' = screen
               /\ last_state' = last_state
               /\ snap' = snap
               /\ \A ps \in AllSlots :
                      OledFlags(param_values)[ps] => OledFlags(param_values')[ps]
         ]_vars
    /\ [][ oled_pc' = "exited" => oled_pc \in {"init", "exited"} ]_vars

\* C22 witness: the task has exited, the screen is as at power-up, and the
\* producers have written a value and switched the page since; the flags they
\* set are all still set.
C22_Witness ==
    /\ oled_pc = "exited"
    /\ ~initialized
    /\ screen = Blank
    /\ param_values.current_page = 2
    /\ ParamAt(param_values, 0, 3).value # 0
    /\ ParamAt(param_values, 0, 3).changed_oled
    /\ ParamAt(param_values, 2, 0).changed_oled


\* ------------------------------------------------------------------------
\* The snapshot among the writers' guarded sections (Spec)
\* ------------------------------------------------------------------------

\* C23 (snapshot ordering): while the display task is inside Step 1's guarded
\* section no writer is inside its own; the snapshot copies the cursor and, for
\* the current page, the values and changed_oled flags the store holds at that
\* moment, which are those left by the guarded sections completed before; the
\* snapshot does not change the store, and no later step of a writer changes
\* the cycle's snapshot.
C23_SnapshotOrdering ==
    /\ [](oled_pc = "step1" => (mutex = "oled" /\ enc_pc # "update"))
    /\ [][ (oled_pc = "step1" /\ oled_pc' # "step1") =>
               LET page == param_values.current_page IN
               /\ snap'.page_idx = page
               /\ \A i \in SlotIdx :
                      /\ snap'.values[i] = Values(param_values)[<<page, i>>]
                      /\ snap'.flags[i] = OledFlags(param_values)[<<page, i>>]
               /\ param_values' = param_values
         ]_vars
    /\ [][ (InCycle /\ oled_pc' = oled_pc) => snap' = snap ]_vars

\* C23 witness: a cycle holds a snapshot with the value and the flag of an
\* encoder write that completed before it, while the encoder task is inside a
\* later guarded section whose write the snapshot does not have.
C23_Witness ==
    /\ oled_pc = "flush"
    /\ snap.flags[3]
    /\ snap.values[3] = SomeValue(DeltaStep)
    /\ enc_pc = "update"
    /\ deltas[3] = -DeltaStep
    /\ ParamAt(param_values, 0, 3).value = DeltaStep


\* ------------------------------------------------------------------------
\* The display task's period
\* ------------------------------------------------------------------------

\* The period of the display task's timer, from the configuration main() passes.
OledPeriod == update_period_ms(DisplayConfigDefault)

\* C24: DisplayConfig::default() has update_frequency_hz = 30 with the geometry
\* 128 x 64, columns of 32, header 12, name y 24, value y 40, and its
\* update_period_ms() is 33: a display task that has entered its loop waits 33 ms
\* between cycles.
C24_DefaultConfig ==
    oled_pc \notin {"init", "exited"} =>
        /\ DisplayConfigDefault.update_frequency_hz = 30
        /\ DisplayConfigDefault.display_width = 128
        /\ DisplayConfigDefault.display_height = 64
        /\ DisplayConfigDefault.column_width = 32
        /\ DisplayConfigDefault.header_height = 12
        /\ DisplayConfigDefault.param_name_y = 24
        /\ DisplayConfigDefault.param_value_y = 40
        /\ OledPeriod = 33


\* ------------------------------------------------------------------------
\* DriverSpec: the OledDriver's own API, called in any order by its owner,
\* beside writes to the store whose current page is drawn
\* ------------------------------------------------------------------------

\* The bus transfers a driver call made.
NoTransfer == <<>>

\* An init() that marks the driver initialised whatever the display answered.
DriverInitSetsOnFailure ==
    /\ prev_call' = Previous(last_call)
    /\ \E ok \in BOOLEAN :
          /\ initialized' = TRUE
          /\ last_call' = Call("init", <<>>,
                               IF ok THEN "Ok" ELSE "InitializationFailed",
                               <<"init_sequence">>)
    /\ frame_buffer' \in {frame_buffer, Blank}
    /\ UNCHANGED <<storeVars, value_origin, oled_pc, snap, new_state, last_state, flushed, screen,
                   oledHistory, encVars, hwVars>>

\* OledDriver::init: display.init().await, mapped to InitializationFailed; the
\* flag is set after the `?`, on success only.
DriverInit ==
    /\ prev_call' = Previous(last_call)
    /\ \E ok \in BOOLEAN :
          /\ initialized' = IF ok THEN TRUE ELSE initialized
          /\ last_call' = Call("init", <<>>,
                               IF ok THEN "Ok" ELSE "InitializationFailed",
                               <<"init_sequence">>)
    /\ frame_buffer' \in {frame_buffer, Blank}
    /\ UNCHANGED <<storeVars, value_origin, oled_pc, snap, new_state, last_state, flushed, screen,
                   oledHistory, encVars, hwVars>>

\* OledDriver::clear_buffer: no bus traffic; the display is always Some.
DriverClearBuffer ==
    /\ prev_call' = Previous(last_call)
    /\ frame_buffer' = Blank
    /\ last_call' = Call("clear_buffer", <<>>, "Ok", NoTransfer)
    /\ UNCHANGED <<storeVars, value_origin, oled_pc, initialized, snap, new_state,
                   last_state, flushed, screen, oledHistory, encVars, hwVars>>

\* OledDriver::display_mut, and the caller drawing the store's current page
\* through the reference when it got one.
DriverDisplayMut ==
    /\ prev_call' = Previous(last_call)
    /\ mutex = "free"
    /\ IF initialized
           THEN LET s == Snapshot(param_values) IN
                /\ frame_buffer' = Frame(from_params(s.page_name, s.names, s.values))
                /\ last_call' = Call("display_mut", <<>>, "Some", NoTransfer)
           ELSE /\ frame_buffer' = frame_buffer
                /\ last_call' = Call("display_mut", <<>>, "None", NoTransfer)
    /\ UNCHANGED <<storeVars, value_origin, oled_pc, initialized, snap, new_state,
                   last_state, flushed, screen, oledHistory, encVars, hwVars>>

\* OledDriver::flush: NotInitialized before anything else; otherwise the frame
\* buffer goes over the bus, wholly on success.
DriverFlush ==
    /\ prev_call' = Previous(last_call)
    /\ IF ~initialized
           THEN /\ screen' = screen
                /\ flushed' = flushed
                /\ last_call' = Call("flush", <<>>, "NotInitialized", NoTransfer)
           ELSE \E flush_ok \in BOOLEAN :
                   /\ screen' \in (IF flush_ok THEN {frame_buffer} ELSE {screen, Partial})
                   /\ flushed' = IF flush_ok THEN frame_buffer.state ELSE flushed
                   /\ last_call' = Call("flush", <<>>,
                                        IF flush_ok THEN "Ok" ELSE "Display",
                                        <<"frame">>)
    /\ UNCHANGED <<storeVars, value_origin, oled_pc, initialized, snap, new_state,
                   last_state, frame_buffer, oledHistory, encVars, hwVars>>

DriverNext ==
    \/ DriverInit
    \/ DriverClearBuffer
    \/ DriverDisplayMut
    \/ DriverFlush
    \/ CallSetActivePage(2)
    \/ CallUpdateFromEncoder(3, DeltaStep)
    \/ CallUpdateFromI2c(8, ExtStep)

DriverSpec == Init /\ [][DriverNext]_vars

\* C25 (OledDriver lifecycle): the driver is uninitialised after new(); it
\* becomes initialised only in an init() that returns Ok, and an init() that
\* fails on an uninitialised driver leaves it uninitialised; while it is
\* uninitialised flush() returns NotInitialized without any bus transfer (the
\* screen stays as it was) and display_mut() returns None (nothing is drawn);
\* once initialised it never becomes uninitialised again.
C25_DriverLifecycle ==
    /\ ~initialized
    /\ [][ (~initialized /\ initialized') =>
               (last_call'.op = "init" /\ last_call'.res = "Ok") ]_vars
    /\ [][ (last_call'.op = "init" /\ last_call'.res # "Ok" /\ ~initialized) =>
               ~initialized' ]_vars
    /\ [][ (last_call'.op = "flush" /\ ~initialized) =>
               /\ last_call'.res = "NotInitialized"
               /\ last_call'.out = NoTransfer
               /\ screen' = screen ]_vars
    /\ [][ (last_call'.op = "display_mut" /\ ~initialized) =>
               /\ last_call'.res = "None"
               /\ frame_buffer' = frame_buffer ]_vars
    /\ [](~initialized => (screen = Blank /\ frame_buffer = Blank))
    /\ [][ initialized => initialized' ]_vars

\* After a write to the store, a flush() on the uninitialised driver was refused
\* with nothing transferred.
C25_Witness ==
    /\ ~initialized
    /\ last_call.op = "flush"
    /\ last_call.res = "NotInitialized"
    /\ last_call.out = NoTransfer
    /\ screen = Blank
    /\ ParamAt(param_values, 0, 3).value = DeltaStep


\* ------------------------------------------------------------------------
\* BoardSpec: the QuadEncoderBoard's API, called in any order by its owner,
\* while the encoders are turned
\* ------------------------------------------------------------------------

\* Encoder indices passed to the board's calls: both ends of the valid range,
\* the first invalid index and the one after it.
BoardEncoderArgs == {0, ENCODER_COUNT - 1, ENCODER_COUNT, ENCODER_COUNT + 1}

\* Positions written by set_position.
SetValues == {0, DeltaStep}

\* One register access of the Seesaw driver on the I2C bus.
Transaction(kind, encoder) == [kind |-> kind, encoder |-> encoder]

\* The result of a read that returned no position.
NoPositions == <<>>

\* QuadEncoderBoard::read_position; ok is the outcome of the bus transaction.
read_position(hw, encoder, ok) ==
    IF encoder >= ENCODER_COUNT
        THEN [res |-> "InvalidEncoder", value |-> 0, bus |-> <<>>]
        ELSE [res |-> IF ok THEN "Ok" ELSE "I2c",
              value |-> IF ok THEN hw[encoder] ELSE 0,
              bus |-> <<Transaction("read_i32", encoder)>>]

\* A batch read that goes on after a failed read and returns what it has.
RECURSIVE read_all_from_reads_on(_, _, _, _, _)
read_all_from_reads_on(hw, oks, encoder, got, bus) ==
    IF encoder = ENCODER_COUNT
        THEN [res |-> IF \A e \in SlotIdx : oks[e] THEN "Ok" ELSE "I2c",
              positions |-> got, bus |-> bus]
        ELSE LET r == read_position(hw, encoder, oks[encoder]) IN
             read_all_from_reads_on(hw, oks, encoder + 1,
                                    [got EXCEPT ![encoder] = r.value], bus \o r.bus)

\* The loop of read_all_positions from `encoder` on: `?` returns the first error.
RECURSIVE read_all_from(_, _, _, _, _)
read_all_from(hw, oks, encoder, got, bus) ==
    IF encoder = ENCODER_COUNT
        THEN [res |-> "Ok", positions |-> got, bus |-> bus]
        ELSE LET r == read_position(hw, encoder, oks[encoder]) IN
             IF r.res # "Ok"
                 THEN [res |-> r.res, positions |-> NoPositions, bus |-> bus \o r.bus]
                 ELSE read_all_from(hw, oks, encoder + 1,
                                    [got EXCEPT ![encoder] = r.value], bus \o r.bus)

\* QuadEncoderBoard::read_all_positions; oks[e] is the outcome of the read of e.
read_all_positions(hw, oks) == read_all_from(hw, oks, 0, Zeros, <<>>)

\* QuadEncoderBoard::set_position: the positions the board may hold afterwards
\* (a failed transfer may or may not have reached the accumulator).
set_position(hw, encoder, value, ok) ==
    IF encoder >= ENCODER_COUNT
        THEN [res |-> "InvalidEncoder", hws |-> {hw}, bus |-> <<>>]
        ELSE [res |-> IF ok THEN "Ok" ELSE "I2c",
              hws |-> IF ok THEN {[hw EXCEPT ![encoder] = value]}
                            ELSE {hw, [hw EXCEPT ![encoder] = value]},
              bus |-> <<Transaction("write_i32", encoder)>>]

\* An enable_interrupt that lets the index ENCODER_COUNT through.
enable_interrupt_off_by_one(encoder, ok) ==
    IF encoder > ENCODER_COUNT
        THEN [res |-> "InvalidEncoder", bus |-> <<>>]
        ELSE [res |-> IF ok THEN "Ok" ELSE "I2c",
              bus |-> <<Transaction("write_u8", encoder)>>]

\* QuadEncoderBoard::enable_interrupt
enable_interrupt(encoder, ok) ==
    IF encoder >= ENCODER_COUNT
        THEN [res |-> "InvalidEncoder", bus |-> <<>>]
        ELSE [res |-> IF ok THEN "Ok" ELSE "I2c",
              bus |-> <<Transaction("write_u8", encoder)>>]

CallReadPosition(encoder) ==
    /\ prev_call' = Previous(last_call)
    /\ \E ok \in BOOLEAN :
          LET r == read_position(hw_positions, encoder, ok) IN
          last_call' = Call("read_position", <<encoder>>, r.res,
                            [value |-> r.value, bus |-> r.bus])
    /\ UNCHANGED <<storeVars, value_origin, oledVars, oledHistory, encVars, hwVars>>

CallReadAllPositions ==
    /\ prev_call' = Previous(last_call)
    /\ \E oks \in [SlotIdx -> BOOLEAN] :
          LET r == read_all_positions(hw_positions, oks) IN
          last_call' = Call("read_all_positions", <<oks>>, r.res,
                            [positions |-> r.positions, bus |-> r.bus])
    /\ UNCHANGED <<storeVars, value_origin, oledVars, oledHistory, encVars, hwVars>>

CallSetPosition(encoder, value) ==
    /\ prev_call' = Previous(last_call)
    /\ \E ok \in BOOLEAN :
          LET r == set_position(hw_positions, encoder, value, ok) IN
          /\ hw_positions' \in r.hws
          /\ last_call' = Call("set_position", <<encoder, value>>, r.res, [bus |-> r.bus])
    /\ UNCHANGED <<storeVars, value_origin, oledVars, oledHistory, encVars, int_low, i2c_bus>>

CallEnableInterrupt(encoder) ==
    /\ prev_call' = Previous(last_call)
    /\ \E ok \in BOOLEAN :
          LET r == enable_interrupt(encoder, ok) IN
          last_call' = Call("enable_interrupt", <<encoder>>, r.res, [bus |-> r.bus])
    /\ UNCHANGED <<storeVars, value_origin, oledVars, oledHistory, encVars, hwVars>>

BoardNext ==
    \/ \E e \in BoardEncoderArgs : CallReadPosition(e)
    \/ CallReadAllPositions
    \/ \E e \in BoardEncoderArgs, v \in SetValues : CallSetPosition(e, v)
    \/ \E e \in BoardEncoderArgs : CallEnableInterrupt(e)
    \/ \E i \in MovingEncoders, d \in EncoderDeltas : HwMove(i, d)

BoardSpec == Init /\ [][BoardNext]_vars

\* The first encoder whose read fails under oks.
FirstFailure(oks) == CHOOSE e \in SlotIdx : ~oks[e] /\ \A f \in 0 .. (e - 1) : oks[f]

\* The reads of encoders 0 .. last, in that order.
ReadsUpTo(last) == [k \in 1 .. (last + 1) |-> Transaction("read_i32", k - 1)]

\* C26 (read_all_positions is all-or-nothing): the batch reads encoders 0, 1, 2,
\* 3 in that order; if the read of encoder i fails it returns that first error,
\* has read encoders 0 .. i and none after i, and returns no positions; it returns
\* Ok, with the four positions the board held, only when all four reads succeeded.
C26_ReadAllOrNothing ==
    /\ [](last_call.op = "read_all_positions" =>
              LET oks == last_call.args[1] IN
              IF \A e \in SlotIdx : oks[e]
                  THEN /\ last_call.res = "Ok"
                       /\ DOMAIN last_call.out.positions = SlotIdx
                       /\ last_call.out.bus = ReadsUpTo(ENCODER_COUNT - 1)
                  ELSE /\ last_call.res = "I2c"
                       /\ last_call.out.positions = NoPositions
                       /\ last_call.out.bus = ReadsUpTo(FirstFailure(oks)))
    /\ [][ (last_call'.op = "read_all_positions" /\ last_call' # last_call
                /\ last_call'.res = "Ok") =>
               last_call'.out.positions = hw_positions ]_vars
    /\ [][ last_call'.op = "read_all_positions" /\ last_call' # last_call =>
               UNCHANGED hw_positions ]_vars

\* The read of encoder 2 failed after encoder 3 had been turned and encoder 0
\* set: encoders 0, 1, 2 were read, encoder 3 was not, and nothing was returned.
C26_Witness ==
    /\ last_call.op = "read_all_positions"
    /\ last_call.args[1] = [e \in SlotIdx |-> e # 2]
    /\ last_call.res = "I2c"
    /\ Len(last_call.out.bus) = 3
    /\ last_call.out.positions = NoPositions
    /\ hw_positions[3] = DeltaStep
    /\ hw_positions[0] = DeltaStep

\* C27 (index validation): read_position, set_position and enable_interrupt
\* called with encoder >= 4 return InvalidEncoder without any I2C transaction
\* (and leave the board's positions alone); with encoder < 4 they never return
\* InvalidEncoder and make their one transaction on that encoder's register.
C27_IndexValidation ==
    /\ [](last_call.op \in {"read_position", "set_position", "enable_interrupt"} =>
              IF last_call.args[1] >= 4
                  THEN /\ last_call.res = "InvalidEncoder"
                       /\ last_call.out.bus = <<>>
                  ELSE /\ last_call.res # "InvalidEncoder"
                       /\ Len(last_call.out.bus) = 1
                       /\ last_call.out.bus[1].encoder = last_call.args[1])
    /\ [][ (last_call'.op \in {"read_position", "set_position", "enable_interrupt"}
                /\ last_call' # last_call /\ last_call'.args[1] >= 4) =>
               UNCHANGED hw_positions ]_vars

\* enable_interrupt(4) was refused with no transaction, on a board whose
\* encoder 3 has been turned.
C27_Witness ==
    /\ last_call.op = "enable_interrupt"
    /\ last_call.args[1] = ENCODER_COUNT
    /\ last_call.res = "InvalidEncoder"
    /\ last_call.out.bus = <<>>
    /\ hw_positions[3] = -DeltaStep


\* ------------------------------------------------------------------------
\* Reconcile after a page switch
\* ------------------------------------------------------------------------

\* C28: the reconcile step clears render_dirty (changed_oled) only on slots of
\* the page its cycle snapshotted, and only where the snapshot saw the flag set:
\* after a page switch between snapshot and reconcile, no flag of the newly
\* selected page is cleared.
C28_ReconcileSnapshottedPage ==
    [][ (oled_pc = "step6" /\ oled_pc' # "step6") =>
            \A ps \in AllSlots :
                (OledFlags(param_values)[ps] /\ ~OledFlags(param_values')[ps]) =>
                    (ps[1] = snap.page_idx /\ snap.flags[ps[2]]) ]_vars


\* ------------------------------------------------------------------------
\* WideSpec: the store's API with encoder deltas from the whole i32 range
\* ------------------------------------------------------------------------

\* Deltas passed to update_from_encoder: both ends of i32 and one movement each way.
WideDeltas == {I32_MIN, -DeltaStep, DeltaStep, I32_MAX}

\* `param.value + delta` leaves the i32 range.
AddOverflows(a, b) == (b > 0 /\ a > I32_MAX - b) \/ (b < 0 /\ a < I32_MIN - b)

\* update_from_encoder in a build with overflow checks: `param.value + delta`
\* panics and the program stops with the store as it was.
CallUpdateFromEncoderPanics(encoder_idx, delta) ==
    /\ mutex = "free"
    /\ encoder_idx < PARAMS_PER_PAGE
    /\ is_active(SlotAt(param_values, param_values.current_page, encoder_idx))
    /\ AddOverflows(ParamAt(param_values, param_values.current_page, encoder_idx).value,
                    delta)
    /\ prev_call' = Previous(last_call)
    /\ last_call' = Call("update_from_encoder", <<encoder_idx, delta>>, "panic", <<>>)
    /\ UNCHANGED <<storeVars, value_origin, oledVars, oledHistory, encVars, hwVars>>

\* The program has not stopped in a panic.
Running == last_call.res # "panic"

WideNext ==
    \/ \E delta \in WideDeltas : Running /\ CallUpdateFromEncoder(3, delta)
    \/ \E delta \in WideDeltas : Running /\ CallUpdateFromEncoderPanics(3, delta)
    \/ Running /\ CallSetActivePage(2)
    \/ Running /\ CallSetPage(0)
    \/ Running /\ CallUpdateFromI2c(3, ExtStep)
    \/ Running /\ CallTakeOledChanges
    \/ Running /\ CallTakeI2cChanges

WideSpec == Init /\ [][WideNext]_vars

\* clamp(value + delta, min, max) with the sum taken over the integers.
ClampedSum(param, delta) ==
    IF delta > param.max_value - param.value THEN param.max_value
    ELSE IF delta < param.min_value - param.value THEN param.min_value
    ELSE param.value + delta

\* C29: for every 32-bit signed delta, update_from_encoder on an Active slot
\* returns and sets value to clamp(value + delta, min, max) with the sum taken
\* over the mathematical integers: a positive delta never decreases the value
\* and a negative delta never increases it, also where value + delta lies
\* outside the 32-bit signed range.
C29_EncoderDeltaMathematical ==
    [][ \A delta \in WideDeltas :
            (/\ last_call'.op = "update_from_encoder"
             /\ last_call'.args = <<3, delta>>
             /\ (CallUpdateFromEncoder(3, delta) \/ CallUpdateFromEncoderPanics(3, delta))
             /\ is_active(SlotAt(param_values, param_values.current_page, 3))) =>
                LET before == ParamAt(param_values, param_values.current_page, 3)
                    after == ParamAt(param_values', param_values.current_page, 3)
                IN  /\ last_call'.res = "Ok"
                    /\ after.value = ClampedSum(before, delta)
                    /\ delta > 0 => after.value >= before.value
                    /\ delta < 0 => after.value <= before.value ]_vars


\* ------------------------------------------------------------------------
\* Origin of the external-dirty flag
\* ------------------------------------------------------------------------

\* No parameter's value stems from an encoder write. Under LayoutSpec the
\* encoder writes slot 3 only and the external engine global index 8 only, so
\* this says that no update_from_encoder has yet met an Active slot.
NoEncoderWrite == \A g \in 0 .. (TOTAL_SLOTS - 1) : value_origin[g] # "encoder"

\* C30: external_dirty (changed_i2c) is set only by update_from_encoder. No
\* parameter of a fresh store has it; a flag rises only in an update_from_encoder
\* step, on the written slot of the current page; as long as no
\* update_from_encoder has met an Active slot (whatever external writes, page
\* switches, drains and display cycles took place) no parameter has the flag
\* and take_i2c_changes returns nothing, while take_oled_changes returns each
\* externally written value still marked for the display.
C30_ExternalDirtyOnlyByEncoder ==
    /\ DirtyI2c(param_values) = {}
    /\ [][ \A ps \in AllSlots :
               (~I2cFlags(param_values)[ps] /\ I2cFlags(param_values')[ps]) =>
                   /\ last_call'.op = "update_from_encoder"
                   /\ CallUpdateFromEncoder(3, DeltaStep)
                   /\ ps = <<param_values.current_page, 3>> ]_vars
    /\ [](NoEncoderWrite =>
              /\ DirtyI2c(param_values) = {}
              /\ last_call.op = "take_i2c_changes" => last_call.out = <<>>)
    /\ [][ (last_call'.op = "take_oled_changes" /\ CallTakeOledChanges) =>
               \A ps \in DirtyOled(param_values) :
                   value_origin[GlobalOf(ps[1], ps[2])] = "i2c" =>
                       \E i \in DOMAIN last_call'.out :
                           /\ last_call'.out[i].page = ps[1]
                           /\ last_call'.out[i].encoder = ps[2]
                           /\ last_call'.out[i].value =
                                  ParamAt(param_values, ps[1], ps[2]).value ]_vars

\* With no encoder write so far, the value 55 has been written from outside to
\* page 2, slot 0; take_i2c_changes has returned nothing, and the
\* take_oled_changes that followed has returned that value.
C30_Witness ==
    /\ NoEncoderWrite
    /\ prev_call = [op |-> "take_i2c_changes", some |-> FALSE]
    /\ last_call.op = "take_oled_changes"
    /\ \E i \in DOMAIN last_call.out :
           /\ last_call.out[i].page = 2
           /\ last_call.out[i].encoder = 0
           /\ last_call.out[i].value = ExtStep
    /\ value_origin[8] = "i2c"
    /\ DirtyI2c(param_values) = {}


\* ------------------------------------------------------------------------
\* PagedSpec: the store's API with encoder writes on two pages
\* ------------------------------------------------------------------------

\* The pages selected are the first two, both all-Active; the encoder slots
\* written are 0 and 3.
PagedNext ==
    \/ \E page \in {0, 1} : CallSetPage(page)
    \/ \E delta \in EncoderDeltas : CallUpdateFromEncoder(0, delta)
    \/ CallUpdateFromEncoder(3, DeltaStep)
    \/ CallTakeOledChanges

PagedSpec == Init /\ [][PagedNext]_vars

\* C31 (frame of update_from_encoder): on an Active slot the call changes only
\* the parameter at (current_page, slot), the page being the one current when the
\* call is applied: that parameter gets the clamped sum and both flags, keeps its
\* bounds; every other slot of every page, and the cursor, stay as they were.
C31_EncoderFrame ==
    [][ \A e \in {0, 3}, d \in EncoderDeltas :
            (/\ last_call'.op = "update_from_encoder"
             /\ CallUpdateFromEncoder(e, d)
             /\ is_active(SlotAt(param_values, param_values.current_page, e))) =>
                LET page == param_values.current_page
                    before == ParamAt(param_values, page, e)
                    after == ParamAt(param_values', page, e)
                IN  /\ param_values'.current_page = page
                    /\ \A ps \in AllSlots \ {<<page, e>>} :
                           SlotAt(param_values', ps[1], ps[2]) =
                               SlotAt(param_values, ps[1], ps[2])
                    /\ is_active(SlotAt(param_values', page, e))
                    /\ after = [before EXCEPT !.value = NearerBound(before, before.value + d),
                                              !.changed_oled = TRUE,
                                              !.changed_i2c = TRUE]
      ]_vars

\* After a page change to page 1, an encoder delta on slot 0 has been applied to
\* page 1 ("Attack") and page 0 slot 0 ("Cutoff") still has its earlier value.
C31_Witness ==
    /\ last_call.op = "update_from_encoder"
    /\ last_call.args = <<0, DeltaStep>>
    /\ param_values.current_page = 1
    /\ ParamAt(param_values, 1, 0).value = DeltaStep
    /\ ParamAt(param_values, 1, 0).changed_i2c
    /\ ParamAt(param_values, 0, 0).value = DEFAULT_MAX_VALUE
    /\ ParamAt(param_values, 0, 3).value = 0


\* ------------------------------------------------------------------------
\* BatchSpec: the firmware with the guarded update of encoder_task taken one
\* assignment at a time, two encoders turned, and the page navigator
\* ------------------------------------------------------------------------

\* The encoders that are turned, both Active on the pages selected.
BatchEncoders == {0, 3}

\* encoder_task is inside its guarded section.
InSection == enc_pc \in {"update", "update_flags"}

\* One turn of the update loop up to the first assignment of set_value:
\* self.value = clamp(value + delta); a zero delta or a Null slot goes on to the
\* next slot.
EncUpdateValue ==
    /\ enc_pc = "update"
    /\ update_idx < PARAMS_PER_PAGE
    /\ LET page == param_values.current_page
           slot == SlotAt(param_values, page, update_idx)
       IN  IF deltas[update_idx] # 0 /\ is_active(slot)
               THEN /\ param_values' =
                           [param_values EXCEPT !.pages[page].params[update_idx] =
                               Active([slot.param EXCEPT !.value =
                                   set_value(slot.param,
                                             WrappingAdd(slot.param.value,
                                                         deltas[update_idx])).value])]
                    /\ ProducerHistory(param_values, param_values',
                                       {<<"encoder", page, update_idx>>})
                    /\ enc_pc' = "update_flags"
                    /\ UNCHANGED update_idx
               ELSE /\ update_idx' = update_idx + 1
                    /\ UNCHANGED <<param_values, enc_pc, oledHistory>>
    /\ UNCHANGED <<mutex, callVars, oledVars, last_cycle, previous_positions, positions,
                   read_idx, deltas, hwVars, last_good>>
    /\ accounted' = [accounted EXCEPT ![update_idx] = @ + deltas[update_idx]]

\* The rest of set_value: changed_oled = true; changed_i2c = true.
EncUpdateFlags ==
    /\ enc_pc = "update_flags"
    /\ LET page == param_values.current_page
           slot == SlotAt(param_values, page, update_idx)
       IN  /\ param_values' =
                  [param_values EXCEPT !.pages[page].params[update_idx] =
                      Active(set_value(slot.param, slot.param.value))]
           /\ ProducerHistory(param_values, param_values',
                              {<<"encoder", page, update_idx>>})
    /\ update_idx' = update_idx + 1
    /\ enc_pc' = "update"
    /\ UNCHANGED <<mutex, callVars, oledVars, last_cycle, previous_positions, positions,
                   read_idx, deltas, hwVars, last_good, accounted>>

\* The end of the guarded block: the mutex is released.
EncRelease ==
    /\ enc_pc = "update"
    /\ update_idx = PARAMS_PER_PAGE
    /\ mutex' = "free"
    /\ update_idx' = 0
    /\ deltas' = Zeros
    /\ enc_pc' = "wait"
    /\ UNCHANGED <<param_values, callVars, oledVars, oledHistory, previous_positions,
                   positions, read_idx, hwVars, last_good, accounted>>

BatchNext ==
    \/ OledTask
    \/ EncReadPosition
    \/ EncWaitForLow
    \/ EncClearAfterError
    \/ EncClearAndDiff
    \/ EncLock
    \/ EncUpdateValue
    \/ EncUpdateFlags
    \/ EncRelease
    \/ \E i \in BatchEncoders : HwMove(i, DeltaStep)
    \/ PageSwitch(1, FALSE)

BatchSpec == Init /\ [][BatchNext]_vars


\* C32 (batch atomicity): all non-zero deltas of one encoder batch are applied
\* inside one guarded section. encoder_task holds the mutex for as long as it is
\* between the first and the last assignment of a batch, the display task holds
\* it in its Steps 1 and 6, so a snapshot is never taken while a batch is partly
\* applied or a parameter has its new value without its flags; inside the section
\* nobody else changes the store, the page cursor stays, each written slot gets
\* the clamped sum and then both flags, and the section ends only after the last
\* slot.
C32_BatchAtomicity ==
    /\ [](InSection => mutex = "encoder")
    /\ [](oled_pc \in {"step1", "step6"} => mutex = "oled")
    /\ [][ (oled_pc = "step1" /\ oled_pc' = "step2") =>
               /\ ~InSection
               /\ update_idx = 0
               /\ snap' = Snapshot(param_values) ]_vars
    /\ [][ InSection =>
               /\ param_values'.current_page = param_values.current_page
               /\ param_values' # param_values =>
                      (enc_pc' # enc_pc /\ oled_pc' = oled_pc /\ snap' = snap) ]_vars
    /\ [][ (enc_pc = "update" /\ enc_pc' = "update_flags") =>
               LET page == param_values.current_page
                   before == ParamAt(param_values, page, update_idx)
               IN  /\ deltas[update_idx] # 0
                   /\ param_values' =
                          [param_values EXCEPT
                              !.pages[page].params[update_idx].param.value =
                                  NearerBound(before, before.value + deltas[update_idx])]
         ]_vars
    /\ [][ (enc_pc = "update_flags" /\ enc_pc' # "update_flags") =>
               LET page == param_values.current_page IN
               /\ enc_pc' = "update"
               /\ update_idx' = update_idx + 1
               /\ param_values' =
                      [param_values EXCEPT
                          !.pages[page].params[update_idx].param.changed_oled = TRUE,
                          !.pages[page].params[update_idx].param.changed_i2c = TRUE]
         ]_vars
    /\ [][ (InSection /\ ~InSection') =>
               (update_idx = PARAMS_PER_PAGE /\ mutex' = "free") ]_vars
    /\ [][ (enc_pc = "update" /\ update_idx' = update_idx + 1) =>
               \/ deltas[update_idx] = 0
               \/ ~is_active(SlotAt(param_values, param_values.current_page, update_idx))
         ]_vars

\* A batch with deltas for encoders 0 and 3 is half applied on page 1: slot 0 is
\* written and marked, slot 3 has its new value but not yet its flags, while the
\* display task waits for the mutex to take its snapshot.
C32_Witness ==
    /\ enc_pc = "update_flags"
    /\ update_idx = 3
    /\ deltas[0] # 0
    /\ deltas[3] # 0
    /\ param_values.current_page = 1
    /\ ParamAt(param_values, 1, 0).value = DeltaStep
    /\ ParamAt(param_values, 1, 0).changed_i2c
    /\ ParamAt(param_values, 1, 3).value = DeltaStep
    /\ ~ParamAt(param_values, 1, 3).changed_i2c
    /\ oled_pc = "lock1"
    /\ mutex = "encoder"


\* ------------------------------------------------------------------------
\* Delta conservation
\* ------------------------------------------------------------------------

\* C33 (delta conservation): for each encoder the initial baseline plus the sum
\* of all deltas encoder_task has passed to update_from_encoder equals the
\* baseline previous_positions (the deltas of a batch still to be applied counted
\* in), whatever reads succeeded or failed; between wakes the sums are exact and
\* the baseline is the most recent successfully read position, or the initial
\* [0; 4] if no read has succeeded.
C33_DeltaConservation ==
    /\ [](enc_pc # "init_read" =>
              \A i \in SlotIdx : accounted[i] + deltas[i] = previous_positions[i])
    /\ [](enc_pc = "wait" =>
              /\ deltas = Zeros
              /\ accounted = previous_positions
              /\ previous_positions = last_good)
    /\ [][ accounted' # accounted =>
               \/ enc_pc = "init_read"
               \/ /\ enc_pc = "update"
                  /\ \A i \in SlotIdx : accounted'[i] - accounted[i] \in {0, deltas[i]} ]_vars

\* Between wakes, after the deltas passed for encoder 3 have brought its
\* parameter to max: the baseline, the accounted sum and the last good read agree
\* at one movement up while the board has already moved back to 0.
C33_Witness ==
    /\ enc_pc = "wait"
    /\ accounted[3] = DeltaStep
    /\ previous_positions[3] = DeltaStep
    /\ last_good[3] = DeltaStep
    /\ hw_positions[3] = 0
    /\ ParamAt(param_values, 0, 3).value = DEFAULT_MAX_VALUE


\* ------------------------------------------------------------------------
\* LiveSpec: the display task under fair scheduling, with an encoder batch and a
\* redrawing page switch as producers
\* ------------------------------------------------------------------------

LiveNext ==
    \/ OledTask
    \/ EncoderWrite([i \in SlotIdx |-> IF i = 3 THEN DeltaStep ELSE 0])
    \/ PageSwitch(0, TRUE)

\* The executor runs the display task whenever it can take a step: its timer
\* expires and the mutex, held only for in-memory sections, is handed over.
LiveSpec == Init /\ [][LiveNext]_vars /\ WF_vars(OledTask)

\* C34 (render flags are eventually consumed): if from some point on the display
\* is initialised, producers and page switches have stopped and no render or
\* flush fails, then from some point on no Active slot of the current page has
\* changed_oled set -- whatever the last write did to the presented value.
C34_RenderFlagsConsumed ==
    (<>[]initialized /\ <>[][OledTask /\ ~FailureStep]_vars) =>
        <>[](\A ps \in DirtyOled(param_values) : ps[1] # param_values.current_page)


\* ------------------------------------------------------------------------
\* ReliableSpec: the firmware under the executor's fair scheduling, on a bus
\* where no read of the encoder positions fails
\* ------------------------------------------------------------------------

\* A read_all_positions that returned an error: in the loop, or the initial one
\* (which then leaves the baseline at [0; 4]).
ReadFailed ==
    \/ enc_pc = "read" /\ enc_pc' = "clear_err"
    \/ /\ enc_pc = "init_read"
       /\ enc_pc' = "wait"
       /\ \/ read_idx < ENCODER_COUNT - 1
          \/ previous_positions' # [positions EXCEPT ![read_idx] = hw_positions[read_idx]]

\* encoder_task when every read succeeds (clear_interrupt_flags may still fail).
ReliableEncoderTask ==
    \/ EncReadPosition /\ ~ReadFailed
    \/ EncWaitForLow
    \/ EncClearAndDiff
    \/ EncLock
    \/ EncUpdate

ReliableNext ==
    \/ OledTask
    \/ ReliableEncoderTask
    \/ \E i \in MovingEncoders, d \in EncoderDeltas : HwMove(i, d)

\* Both tasks run whenever they can take a step; the mutex is granted to a task
\* that keeps asking for it.
ReliableSpec ==
    Init /\ [][ReliableNext]_vars /\ WF_vars(OledTask) /\ SF_vars(ReliableEncoderTask)

\* C35: every change of an encoder's hardware position is eventually applied to
\* the store as a delta without any further movement, provided reads succeed:
\* once the encoders rest, the initial baseline plus the deltas passed to
\* update_from_encoder comes to equal the hardware position of every encoder and
\* stays so -- also for a movement made after the encoder was read in the
\* current wake and before the interrupt flags are cleared. (Stated for the
\* runs in which the display task is up, so that the firmware never comes to a
\* standstill as a whole.)
C35_MovementEventuallyApplied ==
    (<>[]initialized /\ <>[][hw_positions' = hw_positions]_vars) =>
        <>[](accounted = hw_positions)



\* ------------------------------------------------------------------------
\* The two mutexes: PARAM_VALUES and I2C_BUS
\* ------------------------------------------------------------------------

\* The points at which each task is about to do bus transactions: the display
\* task in driver.init() and driver.flush(), encoder_task in read_position and
\* clear_interrupt_flags.
OledBusPoints == {"init", "flush"}

EncBusPoints == {"init_read", "read", "clear", "clear_err"}

\* The I2cDevice wrapper of the display driver acquires the bus mutex.
OledBusLock ==
    /\ oled_pc \in OledBusPoints
    /\ i2c_bus = "free"
    /\ i2c_bus' = "oled"
    /\ UNCHANGED <<storeVars, callVars, oledVars, oledHistory, encVars, hw_positions, int_low>>

\* The I2cDevice wrapper of the encoder board acquires the bus mutex.
EncBusLock ==
    /\ enc_pc \in EncBusPoints
    /\ i2c_bus = "free"
    /\ i2c_bus' = "encoder"
    /\ UNCHANGED <<storeVars, callVars, oledVars, oledHistory, encVars, hw_positions, int_low>>

\* The display task with its bus transactions done under the bus mutex.
OledTaskOnBus ==
    \/ OledBusLock
    \/ /\ oled_pc \in OledBusPoints => i2c_bus = "oled"
       /\ OledTask

\* encoder_task with its bus transactions done under the bus mutex.
EncoderTaskOnBus ==
    \/ EncBusLock
    \/ /\ i2c_bus = "encoder"
       /\ \/ EncReadPosition
          \/ EncClearAfterError
          \/ EncClearAndDiff
    \/ EncWaitForLow
    \/ EncLock
    \/ EncUpdate

LockNext ==
    \/ OledTaskOnBus
    \/ EncoderTaskOnBus
    \/ \E i \in MovingEncoders : HwMove(i, DeltaStep)

\* The executor runs a task whenever it is woken, and a mutex wakes its waiter
\* when it is released; the holder of a mutex goes on to release it.
LockSpec ==
    Init /\ [][LockNext]_vars /\ SF_vars(OledTaskOnBus) /\ SF_vars(EncoderTaskOnBus)

\* C36: no task ever holds the store lock and the I2C bus lock at the same time
\* (each task holds at most one lock at any moment), and every lock acquisition
\* of encoder_task and of the display task is eventually granted.
C36_NoDeadlock ==
    /\ [](\A task \in {"oled", "encoder"} : ~(mutex = task /\ i2c_bus = task))
    /\ (oled_pc \in OledBusPoints) ~> (i2c_bus = "oled")
    /\ (enc_pc \in EncBusPoints) ~> (i2c_bus = "encoder")
    /\ (oled_pc \in {"lock1", "lock6"}) ~> (mutex = "oled")
    /\ (enc_pc = "lock") ~> (mutex = "encoder")

\* encoder_task, in the middle of read_all_positions with the bus granted to it
\* for the reads so far, waits for the bus while the display task flushes on it.
C36_Witness ==
    /\ oled_pc = "flush"
    /\ i2c_bus = "oled"
    /\ mutex = "free"
    /\ enc_pc = "read"
    /\ read_idx > 0



\* ------------------------------------------------------------------------
\* last_state and the frames that reached the display
\* ------------------------------------------------------------------------

\* C37 ('last rendered' invariant): last_state changes only at the end of a
\* cycle whose render and flush both succeeded (the frame buffer holds the frame
\* of new_state and the screen shows it), and in every reachable state it
\* equals the presentation value of the most recent successfully flushed frame
\* (DisplayState::default while no frame has been flushed).
C37_LastRendered ==
    /\ [][last_state' # last_state =>
             /\ oled_pc = "step6"
             /\ oled_pc' = "timer"
             /\ frame_buffer = Frame(new_state)
             /\ screen = frame_buffer
             /\ flushed = new_state
             /\ last_state' = new_state]_vars
    /\ [](last_state = flushed)

\* C37 as the code has it: last_state changes only at the end of a cycle whose
\* render and flush both succeeded; it equals the presentation value of the most
\* recent successfully flushed frame (DisplayState::default while there is none)
\* in every state except between a successful flush and the end of Step 6 of the
\* same cycle, where it still is the value of the frame flushed before and the
\* flushed frame is that of new_state.
C37_LastRenderedOutsideStep6 ==
    /\ [][last_state' # last_state =>
             /\ oled_pc = "step6"
             /\ oled_pc' = "timer"
             /\ frame_buffer = Frame(new_state)
             /\ screen = frame_buffer
             /\ flushed = new_state
             /\ last_state' = new_state]_vars
    /\ [](oled_pc \notin {"lock6", "step6"} => last_state = flushed)
    /\ [](oled_pc \in {"lock6", "step6"} => flushed = new_state /\ last_state # new_state)

\* A frame was flushed and recorded, and a later flush failed half-way: the
\* screen is garbled and last_state is the value of the frame flushed before.
C37_Witness ==
    /\ oled_pc = "timer"
    /\ last_state # DisplayStateDefault
    /\ last_state = flushed
    /\ screen = Partial
    /\ last_cycle.end = "fail"



\* ------------------------------------------------------------------------
\* DisplayChanges
\* ------------------------------------------------------------------------

\* A detect whose loop stops one column short.
detect_skips_last_column(old, new_) ==
    [page_name_changed |-> old.page_name # new_.page_name,
     param_changed |-> [i \in SlotIdx |->
                           /\ i < PARAMS_PER_PAGE - 1
                           /\ \/ old.param_names[i] # new_.param_names[i]
                              \/ old.param_values[i] # new_.param_values[i]]]

\* DisplayChanges::detect
detect(old, new_) ==
    [page_name_changed |-> old.page_name # new_.page_name,
     param_changed |-> [i \in SlotIdx |->
                           \/ old.param_names[i] # new_.param_names[i]
                           \/ old.param_values[i] # new_.param_values[i]]]

\* DisplayChanges::any_changed
any_changed(changes) ==
    changes.page_name_changed \/ \E i \in SlotIdx : changes.param_changed[i]

\* display_state_changed: old != new of the derived PartialEq
display_state_changed(old, new_) == old # new_

\* The arguments the states are built from: page names up to and beyond the 15
\* bytes a DisplayState keeps, names and values in the first and the last column.
DetectStates ==
    {DisplayStateDefault} \cup
    {from_params(page_name,
                 [i \in SlotIdx |-> IF i = 0 THEN n0
                                    ELSE IF i = PARAMS_PER_PAGE - 1 THEN n3 ELSE None],
                 [i \in SlotIdx |-> IF i = 0 THEN v0
                                    ELSE IF i = PARAMS_PER_PAGE - 1 THEN v3 ELSE NoValue]) :
        page_name \in {"Oscillator", "OscillatorLevel", "OscillatorLevel1"},
        n0 \in {None, "Freq"}, n3 \in {None, "Gain"},
        v0 \in {NoValue, SomeValue(0), SomeValue(DeltaStep)}, v3 \in {NoValue, SomeValue(0)}}

\* Two DisplayState values, old in last_state and new in new_state; nothing else
\* of the firmware runs.
DetectInit ==
    /\ param_values = new
    /\ mutex = "free"
    /\ last_call = NoCall
    /\ prev_call = Previous(NoCall)
    /\ value_origin = [g \in 0 .. (TOTAL_SLOTS - 1) |-> "new"]
    /\ oled_pc = "init"
    /\ initialized = FALSE
    /\ snap = NoSnap
    /\ new_state \in DetectStates
    /\ last_state \in DetectStates
    /\ frame_buffer = Blank
    /\ screen = Blank
    /\ flushed = DisplayStateDefault
    /\ since_snap = {}
    /\ quiet = NoQuiet
    /\ retry_pending = FALSE
    /\ last_cycle = NoCycle
    /\ enc_pc = "init_read"
    /\ previous_positions = Zeros
    /\ positions = Zeros
    /\ read_idx = 0
    /\ update_idx = 0
    /\ deltas = Zeros
    /\ hw_positions = Zeros
    /\ int_low = FALSE
    /\ i2c_bus = "free"
    /\ last_good = Zeros
    /\ accounted = Zeros

\* DisplayChanges::detect(&old, &new)
CallDetect ==
    /\ prev_call' = Previous(last_call)
    /\ last_call' = Call("detect", <<>>, "Ok", detect(last_state, new_state))
    /\ UNCHANGED <<storeVars, value_origin, oledVars, oledHistory, encVars, hwVars>>

\* changes.any_changed() on the DisplayChanges that detect returned
CallAnyChanged ==
    /\ last_call.op = "detect"
    /\ prev_call' = Previous(last_call)
    /\ last_call' = Call("any_changed", <<>>, "Ok", [any |-> any_changed(last_call.out)])
    /\ UNCHANGED <<storeVars, value_origin, oledVars, oledHistory, encVars, hwVars>>

\* display_state_changed(&old, &new)
CallDisplayStateChanged ==
    /\ prev_call' = Previous(last_call)
    /\ last_call' = Call("display_state_changed", <<>>, "Ok",
                         [changed |-> display_state_changed(last_state, new_state)])
    /\ UNCHANGED <<storeVars, value_origin, oledVars, oledHistory, encVars, hwVars>>

DetectNext ==
    \/ CallDetect
    \/ CallAnyChanged
    \/ CallDisplayStateChanged

DetectSpec == DetectInit /\ [][DetectNext]_vars

\* C38: DisplayChanges::detect agrees with whole-state equality. For every pair
\* of DisplayState values, page_name_changed is true iff the page names differ,
\* param_changed[i] is true iff column i's name or value differs, any_changed()
\* is true iff the two states are not equal, and display_state_changed is true
\* iff they are not equal.
C38_DetectAgreesWithEquality ==
    /\ last_call.op = "detect" =>
          /\ last_call.out.page_name_changed = (last_state.page_name # new_state.page_name)
          /\ \A i \in SlotIdx :
                last_call.out.param_changed[i] =
                    ~(/\ last_state.param_names[i] = new_state.param_names[i]
                      /\ last_state.param_values[i] = new_state.param_values[i])
    /\ last_call.op = "any_changed" => last_call.out.any = ~(last_state = new_state)
    /\ last_call.op = "display_state_changed" =>
          last_call.out.changed = ~(last_state = new_state)

\* Two states that differ in the value of the last column only, under a page
\* name of the full 15 bytes, and any_changed has answered true.
C38_Witness ==
    /\ last_call.op = "any_changed"
    /\ last_call.out.any
    /\ last_state.page_name = new_state.page_name
    /\ last_state.param_names = new_state.param_names
    /\ \A i \in SlotIdx : i < PARAMS_PER_PAGE - 1 =>
          last_state.param_values[i] = new_state.param_values[i]
    /\ last_state.param_values[PARAMS_PER_PAGE - 1] # new_state.param_values[PARAMS_PER_PAGE - 1]
    /\ Len(last_state.page_name) = NAME_MAX



\* ------------------------------------------------------------------------
\* The cursor
\* ------------------------------------------------------------------------

\* C39 (cursor range invariant): in every reachable state current_page < N_PAGES,
\* so that pages[current_page] of get_active_page, of update_from_encoder and of
\* the display task's snapshot and reconcile is a page of the store; the cursor
\* is changed only by a set_page or set_active_page that returns Ok, to the page
\* it was called with.
C39_CursorRange ==
    /\ [](/\ param_values.current_page \in Nat
          /\ param_values.current_page < N_PAGES
          /\ param_values.current_page \in DOMAIN param_values.pages)
    /\ [][param_values'.current_page # param_values.current_page =>
             \E page \in PageArgs, redraw \in BOOLEAN :
                 /\ PageSwitch(page, redraw)
                 /\ (IF redraw THEN set_active_page(param_values, page)
                               ELSE set_page(param_values, page)).res = "Ok"
                 /\ param_values'.current_page = page]_vars

\* The cursor was moved to page 2 by a set_active_page, and the display task
\* reconciles the page it snapshotted there.
C39_Witness ==
    /\ param_values.current_page = 2
    /\ oled_pc = "step6"
    /\ snap.page_name = PAGE_NAMES[2 + 1]
    /\ \E i \in SlotIdx : snap.flags[i]

====
